---------------------------- MODULE Spec2Model ----------------------------
(***************************************************************************)
(* Model of the markdown-replace remark plugin (src/unnamed/part_002).     *)
(*                                                                         *)
(* A JavaScript string is a sequence of characters; a character is a       *)
(* one-character string, and a non-ASCII character is written by its code  *)
(* point ("U+56FE").  A node of the document tree is a record              *)
(* [type, value, children, url, alt]; a field a node kind does not carry   *)
(* holds the empty sequence.                                               *)
(***************************************************************************)
EXTENDS Integers, Sequences, FiniteSets, TLC

VARIABLES
    tree,                \* the root node handed to the transformer
    pc,                  \* "idle" | "visit" | "mark" | "notes" | "done" | "aborted"
    cur,                 \* path of the next node visit() hands to the visitor
    imgNum,              \* imgRegex.imgNum
    tblNum,              \* tblRegex.tblNum
    footNoteNum,         \* footnoteRegex.footNoteNum
    collectedFootnotes,  \* the module-level footnote list
    runs,                \* transformer invocations started so far
    nvisited,            \* visitor calls made by the current invocation
    input,               \* the tree as it was when the current invocation began
    rerun,               \* the current invocation was handed the tree the last one returned
    loc                  \* locals of a function called on its own (component specs)

vars == <<tree, pc, cur, imgNum, tblNum, footNoteNum, collectedFootnotes,
          runs, nvisited, input, rerun, loc>>

globals == <<imgNum, tblNum, footNoteNum, collectedFootnotes>>
transformerVars == <<tree, pc, cur, runs, nvisited, input, rerun>>

(***************************************************************************)
(* Characters                                                              *)
(***************************************************************************)
TU == "U+56FE"        \* the figure prefix character
BIAO == "U+8868"      \* the table prefix character
SHI == "U+5341"       \* the numeral ten
YI == "U+4E00"        \* the numeral one, also the first character of the CJK range
YU == "U+9FA5"        \* the last character of the CJK range
FWCOLON == "U+FF1A"   \* full-width colon
PILCROW == "U+00B6"
LQ == "U+300C"        \* left corner bracket
RQ == "U+300D"        \* right corner bracket
LDQ == "U+300E"       \* left white corner bracket
RDQ == "U+300F"       \* right white corner bracket
EMDASH == "U+2014"

digits ==
    <<"U+96F6", "U+4E00", "U+4E8C", "U+4E09", "U+56DB",
      "U+4E94", "U+516D", "U+4E03", "U+516B", "U+4E5D">>

\* the characters of [\u4e00-\u9fa5]: every code point from U+4E00 (19968) to
\* U+9FA5 (40869), written as the model writes a non-ASCII character
CJKChars ==
    LET Hex == <<"0","1","2","3","4","5","6","7","8","9","A","B","C","D","E","F">>
        HexDigit(n, w) == Hex[((n \div w) % 16) + 1]
        CodePoint(n) ==
            "U+" \o HexDigit(n, 4096) \o HexDigit(n, 256) \o HexDigit(n, 16) \o HexDigit(n, 1)
    IN  {CodePoint(n) : n \in 19968..40869}

\* the characters of [a-zA-Z0-9] that documents and templates use
AlnumChars ==
    {"a","b","c","d","e","f","g","h","i","j","k","l","m","n","o","p","q","r","s",
     "t","u","v","w","x","y","z","A","B","C","D","E","F","G","H","I","J","K","L",
     "M","N","O","P","Q","R","S","T","U","V","W","X","Y","Z",
     "0","1","2","3","4","5","6","7","8","9"}

\* what `\s` matches: the white space and the line terminators of JavaScript
SpaceChars ==
    {" ", "\n", "\t", "\r", "U+000B", "U+000C", "U+00A0", "U+1680",
     "U+2000", "U+2001", "U+2002", "U+2003", "U+2004", "U+2005", "U+2006",
     "U+2007", "U+2008", "U+2009", "U+200A", "U+2028", "U+2029", "U+202F",
     "U+205F", "U+3000", "U+FEFF"}

\* what `.` matches: anything but a line terminator (LF, CR, U+2028, U+2029)
IsDot(c) == c \notin {"\n", "\r", "U+2028", "U+2029"}

(***************************************************************************)
(* String helpers                                                          *)
(***************************************************************************)
\* s.startsWith(p), with the match starting at index i (1-based)
HasAt(s, i, p) ==
    /\ i >= 1
    /\ i + Len(p) - 1 <= Len(s)
    /\ \A k \in 1..Len(p) : s[i + k - 1] = p[k]

startsWith(s, p) == HasAt(s, 1, p)
endsWith(s, p) == HasAt(s, Len(s) - Len(p) + 1, p)

\* s.slice(i - 1): the rest of s from the 1-based index i
From(s, i) == SubSeq(s, i, Len(s))

\* the least element of a set of indices, 0 for the empty set
MinOrZero(S) == IF S = {} THEN 0 ELSE CHOOSE x \in S : \A y \in S : x <= y

\* the greatest element of a set of indices, 0 for the empty set
MaxOrZero(S) == IF S = {} THEN 0 ELSE CHOOSE x \in S : \A y \in S : y <= x

\* the first index >= i where p occurs, 0 when there is none
indexFrom(s, i, p) == MinOrZero({j \in i..Len(s) : HasAt(s, j, p)})

\* s.indexOf(p) as a 1-based index, 0 when absent
indexOf(s, p) == indexFrom(s, 1, p)

\* s.replace(/lit/g, by) for a literal lit, from index p on; q is the index of
\* the next occurrence of lit
RECURSIVE ReplaceLiteralFrom(_, _, _, _)
ReplaceLiteralAt(s, lit, by, p, q) ==
    IF q = 0
    THEN From(s, p)
    ELSE SubSeq(s, p, q - 1) \o by \o ReplaceLiteralFrom(s, lit, by, q + Len(lit))

ReplaceLiteralFrom(s, lit, by, p) == ReplaceLiteralAt(s, lit, by, p, indexFrom(s, p, lit))

Contains(s, p) == \E i \in 1..(Len(s) + 1) : HasAt(s, i, p)

\* `${n}` for a non-negative integer n
RECURSIVE ToDecimal(_)
ToDecimal(n) ==
    LET d == <<"0","1","2","3","4","5","6","7","8","9">>[(n % 10) + 1]
    IN IF n < 10 THEN <<d>> ELSE ToDecimal(n \div 10) \o <<d>>

(***************************************************************************)
(* numberToChinese                                                         *)
(***************************************************************************)
MaxOrdinal == 99

\* the guard of numberToChinese: it throws exactly when this holds
numberToChineseThrows(num) == num < 1 \/ num > MaxOrdinal

\* numberToChinese without the test of the ones digit
numberToChineseOnesAlways(num) ==
    IF num < 10
    THEN <<digits[num + 1]>>
    ELSE LET tens == num \div 10
             ones == num % 10
             result == IF tens = 1 THEN <<SHI>> ELSE <<digits[tens + 1], SHI>>
         IN result \o <<digits[ones + 1]>>

numberToChinese(num) ==
    IF num < 10
    THEN <<digits[num + 1]>>
    ELSE LET tens == num \div 10
             ones == num % 10
             result == IF tens = 1 THEN <<SHI>> ELSE <<digits[tens + 1], SHI>>
         IN IF ones # 0 THEN result \o <<digits[ones + 1]>> ELSE result


(***************************************************************************)
(* Literal pieces of the markup templates                                  *)
(***************************************************************************)
FootRefA ==
    <<"<","a"," ","c","l","a","s","s","=","\"","c","o","m","m","e","n","t","_","f","o","r",
    "w","a","r","d","_","l","i","n","k","\""," ","h","r","e","f","=","\"","#","c","o","m",
    "m","e","n","t","_","b","a","c","k","w","a","r","d","_","l","i","n","k","_">>
FootRefB ==
    <<"\""," ","i","d","=","\"","c","o","m","m","e","n","t","_","f","o","r","w","a","r","d",
    "_","l","i","n","k","_">>
FootRefC ==
    <<"\"",">","[">>
FootRefD ==
    <<"]","<","/","a",">">>
FigA ==
    <<"\n","<","f","i","g","u","r","e"," ","c","l","a","s","s","=","\"","i","m","a","g","e",
    "-","w","r","a","p"," ">>
FigB ==
    <<"\"",">","\n"," "," ","<","i","m","g"," ","s","r","c","=","\"">>
FigC ==
    <<"\""," ","a","l","t","=","\"">>
FigD ==
    <<"\"",">","\n"," "," ","<","f","i","g","c","a","p","t","i","o","n",">","\n"," "," "," ",
    " ","<","a"," ","h","r","e","f","=","\"","#","i","m","g","_","f","o","r","w","a","r",
    "d","_","l","i","n","k","_","U+56FE">>
FigE ==
    <<"\""," ","i","d","=","\"","i","m","g","_","b","a","c","k","w","a","r","d","_","l","i",
    "n","k","_","U+56FE">>
FigF ==
    <<"\"",">","U+56FE">>
FigG ==
    <<"<","/","a",">","U+FF1A">>
FigH ==
    <<"\n"," "," ","<","/","f","i","g","c","a","p","t","i","o","n",">","\n","<","/","f","i",
    "g","u","r","e",">">>
CapA ==
    <<"<","p"," ","c","l","a","s","s","=","\"","t","b","l","_","t","i","t","l","e","\"",">",
    "<","a"," ","h","r","e","f","=","\"","#","t","b","l","_","f","o","r","w","a","r","d",
    "_","l","i","n","k","_","U+8868">>
CapB ==
    <<"\""," ","i","d","=","\"","t","b","l","_","b","a","c","k","w","a","r","d","_","l","i",
    "n","k","_","U+8868">>
CapC ==
    <<"\"",">","U+8868">>
CapD ==
    <<"<","/","a",">","U+FF1A">>
CapE ==
    <<"<","/","p",">">>
Divider ==
    <<"<","h","r"," ","s","t","y","l","e","=","'","m","a","r","g","i","n",":"," ","1",".","5",
    "e","m"," ","0"," ","1",".","5","e","m"," ","0",";","'"," ","c","l","a","s","s","=","'",
    "f","o","o","t","n","o","t","e","-","s","e","p","a","r","a","t","o","r","'",">">>
NoteA ==
    <<"<","t","a","b","l","e"," ","c","l","a","s","s","=","\"","c","o","m","m","e","n","t",
    "\"",">","<","t","r"," ","c","l","a","s","s","=","\"","c","o","m","m","e","n","t","\"",
    ">","<","t","d"," ","c","l","a","s","s","=","\"","c","o","m","m","e","n","t","\"",">",
    "<","a"," ","h","r","e","f","=","\"","#","c","o","m","m","e","n","t","_","f","o","r",
    "w","a","r","d","_","l","i","n","k","_">>
NoteB ==
    <<"\""," ","i","d","=","\"","c","o","m","m","e","n","t","_","b","a","c","k","w","a","r",
    "d","_","l","i","n","k","_">>
NoteC ==
    <<"\"",">","[">>
NoteD ==
    <<"]","<","/","a",">","<","/","t","d",">","<","t","d"," ","c","l","a","s","s","=","\"",
    "c","o","m","m","e","n","t","\"",">">>
NoteE ==
    <<"<","/","t","d",">","<","/","t","r",">","<","/","t","a","b","l","e",">">>
FloatRight ==
    <<"f","l","o","a","t","-","r","i","g","h","t">>
FloatLeft ==
    <<"f","l","o","a","t","-","l","e","f","t">>
AttachmentsSeg ==
    <<"a","t","t","a","c","h","m","e","n","t","s","/">>
AttachmentsRoot ==
    <<"/","a","t","t","a","c","h","m","e","n","t","s","/">>
QuotEntity ==
    <<"&","q","u","o","t",";">>

(***************************************************************************)
(* Nodes                                                                   *)
(***************************************************************************)
Node(t, v, ch, u, a) == [type |-> t, value |-> v, children |-> ch, url |-> u, alt |-> a]
Text(v) == Node("text", v, <<>>, <<>>, <<>>)
Html(v) == Node("html", v, <<>>, <<>>, <<>>)
Image(u, a) == Node("image", <<>>, <<>>, u, a)

\* the alt of an image node that has no alt property, and what a template
\* literal prints for it
NoAlt == <<"undefined">>
UndefinedPrinted == <<"u", "n", "d", "e", "f", "i", "n", "e", "d">>
Parent(t, ch) == Node(t, <<>>, ch, <<>>, <<>>)


(***************************************************************************)
(* transformCustomFootnotes                                                *)
(***************************************************************************)
\* the condition without its test of the third node
SpliceMatchesUnclosed(children) ==
    /\ Len(children) >= 3
    /\ children[1].type = "text" /\ endsWith(children[1].value, <<"^", "[">>)
    /\ children[2].type = "link" /\ Len(children[2].children) > 0

\* the condition of the if inside the while loop, on the pending list
SpliceMatches(children) ==
    /\ Len(children) >= 3
    /\ children[1].type = "text" /\ endsWith(children[1].value, <<"^", "[">>)
    /\ children[2].type = "link" /\ Len(children[2].children) > 0
    /\ children[3].type = "text" /\ startsWith(children[3].value, <<"]">>)

\* the iteration with the text after the close marker dropped instead of
\* put back in front of the pending nodes
SpliceIterDropsRest(st) ==
    LET children == st.children
    IN IF SpliceMatches(children)
       THEN [children |-> SubSeq(children, 4, Len(children)),
             newChildren |->
                 Append(st.newChildren,
                        Text(SubSeq(children[1].value, 1, Len(children[1].value) - 2)
                             \o <<"[", "^">> \o children[2].children[1].value \o <<"]">>))]
       ELSE [children |-> Tail(children),
             newChildren |-> Append(st.newChildren, children[1])]

\* one iteration of the while loop; st = [children, newChildren]
SpliceIter(st) ==
    LET children == st.children
    IN IF SpliceMatches(children)
       THEN LET child1 == children[1]
                child2 == children[2]
                child3 == children[3]
                linkText == child2.children[1].value
                remainingText == Tail(child3.value)
                remainingChildren == SubSeq(children, 4, Len(children))
            IN [children |->
                    IF remainingText # <<>>
                    THEN <<Text(remainingText)>> \o remainingChildren
                    ELSE remainingChildren,
                newChildren |->
                    Append(st.newChildren,
                           Text(SubSeq(child1.value, 1, Len(child1.value) - 2)
                                \o <<"[", "^">> \o linkText \o <<"]">>))]
       ELSE [children |-> Tail(children),
             newChildren |-> Append(st.newChildren, children[1])]

RECURSIVE SpliceLoop(_)
SpliceLoop(st) == IF Len(st.children) > 0 THEN SpliceLoop(SpliceIter(st)) ELSE st

\* the merge loop: mergedChildren so far, and the index i into newChildren
RECURSIVE MergeLoop(_, _, _)
MergeLoop(mergedChildren, newChildren, i) ==
    IF i > Len(newChildren)
    THEN mergedChildren
    ELSE LET n == Len(mergedChildren)
             lastNode == mergedChildren[n]
             currentNode == newChildren[i]
         IN IF lastNode.type = "text" /\ currentNode.type = "text"
            THEN MergeLoop([mergedChildren EXCEPT ![n].value = @ \o currentNode.value],
                           newChildren, i + 1)
            ELSE MergeLoop(Append(mergedChildren, currentNode), newChildren, i + 1)

\* the return without the merge of adjacent texts
mergeAdjacentSkipped(newChildren) == newChildren

mergeAdjacent(newChildren) ==
    IF Len(newChildren) < 2
    THEN newChildren
    ELSE MergeLoop(<<newChildren[1]>>, newChildren, 2)

transformCustomFootnotes(children) ==
    mergeAdjacent(SpliceLoop([children |-> children, newChildren |-> <<>>]).newChildren)

(***************************************************************************)
(* footnoteRegex                                                           *)
(***************************************************************************)
\* the pattern without its lookahead (?!表|图)
FootMatchAtAnyContent(s, i) ==
    /\ HasAt(s, i, <<"[", "^">>)
    /\ indexFrom(s, i + 2, <<"]">>) # 0

\* /(\[\^(?!表|图)([^\]]*?)\])/ matched at index i of s
FootMatchAt(s, i) ==
    /\ HasAt(s, i, <<"[", "^">>)
    /\ i + 2 > Len(s) \/ s[i + 2] \notin {BIAO, TU}
    /\ indexFrom(s, i + 2, <<"]">>) # 0

\* the index of the first match at or after index i, 0 when there is none
FootFirstMatch(s, i) == MinOrZero({j \in i..Len(s) : FootMatchAt(s, j)})

\* text.split(footnoteCaptureRegex) from index p on:
\* <<segment, whole match, content, segment, whole match, content, ..., segment>>
\* (q: where the next match starts, e: the index of its closing bracket)
RECURSIVE FootSplit(_, _)
FootSplitMatch(s, p, q, e) ==
    <<SubSeq(s, p, q - 1), SubSeq(s, q, e), SubSeq(s, q + 2, e - 1)>> \o FootSplit(s, e + 1)

FootSplitAt(s, p, q) ==
    IF q = 0 THEN <<From(s, p)>> ELSE FootSplitMatch(s, p, q, indexFrom(s, q + 2, <<"]">>))

FootSplit(s, p) == FootSplitAt(s, p, FootFirstMatch(s, p))

FootRef(footnoteNum) ==
    FootRefA \o ToDecimal(footnoteNum) \o FootRefB \o ToDecimal(footnoteNum)
    \o FootRefC \o ToDecimal(footnoteNum) \o FootRefD

\* the number a footnote found with footNoteNum = n gets
FootAssign(n) == n + 1

\* the inner for loop over parts, from index i (1-based: i - 1 is the source's i);
\* acc = [out, num, foots]
RECURSIVE FootParts(_, _, _)
FootParts(parts, i, acc) ==
    IF i > Len(parts)
    THEN acc
    ELSE LET part == parts[i]
         IN IF part = <<>>
            THEN FootParts(parts, i + 1, acc)
            ELSE IF (i - 1) % 3 = 0
            THEN FootParts(parts, i + 1, [acc EXCEPT !.out = Append(@, Text(part))])
            ELSE IF (i - 1) % 3 = 1
            THEN LET footnoteContent == parts[i + 1]
                     footnoteNum == FootAssign(acc.num)
                 IN FootParts(parts, i + 2,
                       [out |-> Append(acc.out, Html(FootRef(footnoteNum))),
                        num |-> footnoteNum,
                        foots |-> Append(acc.foots,
                                         [num |-> footnoteNum, content |-> footnoteContent])])
            ELSE FootParts(parts, i + 1, acc)

\* the body of the outer for loop for a text or html child split into parts
FootOfParts(child, parts, acc) ==
    IF Len(parts) = 1
    THEN [acc EXCEPT !.out = Append(@, child)]
    ELSE FootParts(parts, 1, acc)

\* the body of the outer for loop
FootChild(child, acc) ==
    IF child.type # "text" /\ child.type # "html"
    THEN [acc EXCEPT !.out = Append(@, child)]
    ELSE FootOfParts(child, FootSplit(child.value, 1), acc)

\* the outer for loop over node.children, from index j
RECURSIVE FootChildren(_, _, _)
FootChildren(children, j, acc) ==
    IF j > Len(children)
    THEN acc
    ELSE FootChildren(children, j + 1, FootChild(children[j], acc))

\* footnoteRegex with a counter of its own call instead of the function's
footnoteRegexLocalCounter(children, num, foots) ==
    FootChildren(children, 1, [out |-> <<>>, num |-> 0, foots |-> foots])

\* footnoteRegex(node) with footnoteRegex.footNoteNum = num and collectedFootnotes = foots:
\* [out: the returned list, num and foots: the two globals afterwards]
footnoteRegex(children, num, foots) ==
    FootChildren(children, 1, [out |-> <<>>, num |-> num, foots |-> foots])


(***************************************************************************)
(* imgRegex                                                                *)
(***************************************************************************)
\* s.replace(/"/g, '&quot;')
EscapeQuotes(s) == ReplaceLiteralFrom(s, <<"\"">>, QuotEntity, 1)

\* the float classes the other way round
FloatClassSwapped(n) == IF n % 2 # 0 THEN FloatLeft ELSE FloatRight

\* the float class of the image numbered imgNum
FloatClass(n) == IF n % 2 # 0 THEN FloatRight ELSE FloatLeft

\* the rewrite of a url that holds 'attachments/'
ImageUrl(url) ==
    LET attachmentsIndex == indexOf(url, AttachmentsSeg)
    IN IF attachmentsIndex # 0
       THEN AttachmentsRoot \o From(url, attachmentsIndex + Len(AttachmentsSeg))
       ELSE url

\* the figureHtml template
FigureHtml(floatClass, imageUrl, altText, chineseNum, alt) ==
    FigA \o floatClass \o FigB \o imageUrl \o FigC \o altText \o FigD \o chineseNum
    \o FigE \o chineseNum \o FigF \o chineseNum \o FigG \o alt \o FigH

\* the body of the for loop for an image child that gets the number n
ImgFigure(child, n) ==
    Html(FigureHtml(FloatClass(n), ImageUrl(child.url),
                    IF child.alt # <<>> /\ child.alt # NoAlt
                    THEN EscapeQuotes(child.alt) ELSE <<>>,
                    numberToChinese(n),
                    IF child.alt = NoAlt THEN UndefinedPrinted ELSE child.alt))

\* the body of the for loop; acc = [out, num, threw]
ImgChild(child, acc) ==
    IF child.type # "image"
    THEN [acc EXCEPT !.out = Append(@, child)]
    ELSE IF numberToChineseThrows(acc.num + 1)
    THEN [acc EXCEPT !.num = @ + 1, !.threw = TRUE]
    ELSE [acc EXCEPT !.num = @ + 1, !.out = Append(@, ImgFigure(child, acc.num + 1))]

\* the for loop over node.children from index j, left when numberToChinese throws
RECURSIVE ImgChildren(_, _, _)
ImgChildren(children, j, acc) ==
    IF j > Len(children) \/ acc.threw
    THEN acc
    ELSE ImgChildren(children, j + 1, ImgChild(children[j], acc))

\* imgRegex(node) with imgRegex.imgNum = num: [out: the returned list, num: the
\* counter afterwards, threw: numberToChinese threw and nothing was returned]
imgRegex(children, num) ==
    ImgChildren(children, 1, [out |-> <<>>, num |-> num, threw |-> FALSE])

(***************************************************************************)
(* tblRegex                                                                *)
(***************************************************************************)
\* the caption template
Caption(n, currentTblTitle) ==
    CapA \o numberToChinese(n) \o CapB \o numberToChinese(n) \o CapC
    \o numberToChinese(n) \o CapD \o currentTblTitle \o CapE

\* the caption block, in the loop and after it: the counter goes up, and the
\* caption is pushed unless numberToChinese throws
TblCaption(acc) ==
    IF numberToChineseThrows(acc.num + 1)
    THEN [acc EXCEPT !.num = @ + 1, !.threw = TRUE]
    ELSE [acc EXCEPT !.num = @ + 1,
                     !.out = Append(@, Html(Caption(acc.num + 1, acc.currentTblTitle)))]

\* the caption block without the reset of isInTbl
AfterCaptionStillInTbl(acc) == acc

\* the flags after the caption block ran for a non-row child
AfterCaption(acc) == [acc EXCEPT !.isInTbl = FALSE]

\* the body of the for loop for a child that is no tableRow
TblOther(acc, child) ==
    IF acc.isInTbl
    THEN IF TblCaption(acc).threw
         THEN TblCaption(acc)
         ELSE [AfterCaption(TblCaption(acc)) EXCEPT !.out = Append(@, child),
                                                    !.kids = Append(@, child)]
    ELSE [acc EXCEPT !.out = Append(@, child), !.kids = Append(@, child)]

\* the body of the for loop for a tableRow child without the write that
\* blanks the title text
TblRowKeepsTitleText(acc, child) ==
    LET readsTitle == acc.isFirstRow /\ Len(child.children) > 0
        firstCell == child.children[1]
        hasInline == readsTitle /\ Len(firstCell.children) > 0
    IN [acc EXCEPT !.isInTbl = TRUE,
                   !.currentTblTitle = IF hasInline THEN firstCell.children[1].value ELSE @,
                   !.isFirstRow = IF readsTitle THEN FALSE ELSE @,
                   !.out = Append(@, child),
                   !.kids = Append(@, child)]

\* the body of the for loop for a tableRow child
TblRow(acc, child) ==
    LET readsTitle == acc.isFirstRow /\ Len(child.children) > 0
        firstCell == child.children[1]
        hasInline == readsTitle /\ Len(firstCell.children) > 0
        row == IF hasInline
               THEN [child EXCEPT !.children[1].children[1].value = <<>>]
               ELSE child
    IN [acc EXCEPT !.isInTbl = TRUE,
                   !.currentTblTitle = IF hasInline THEN firstCell.children[1].value ELSE @,
                   !.isFirstRow = IF readsTitle THEN FALSE ELSE @,
                   !.out = Append(@, row),
                   !.kids = Append(@, row)]

\* the for loop over node.children from index j, then the block after it;
\* acc = [out, kids, isInTbl, isFirstRow, currentTblTitle, num, threw]
\* (kids: node.children as the in-place writes to the rows have left it; when
\* numberToChinese throws the children not reached are as they were)
RECURSIVE TblChildren(_, _, _)
TblChildren(children, j, acc) ==
    IF acc.threw
    THEN [acc EXCEPT !.kids = @ \o SubSeq(children, j - 1, Len(children))]
    ELSE IF j > Len(children)
    THEN IF acc.isInTbl THEN TblCaption(acc) ELSE acc
    ELSE TblChildren(children, j + 1,
                     IF children[j].type # "tableRow"
                     THEN TblOther(acc, children[j])
                     ELSE TblRow(acc, children[j]))

\* tblRegex(node) with tblRegex.tblNum = num: [out: the returned list, kids:
\* node.children as the in-place writes left it, num: the counter afterwards,
\* threw: numberToChinese threw and nothing was returned]
tblRegex(children, num) ==
    TblChildren(children, 1,
                [out |-> <<>>, kids |-> <<>>, isInTbl |-> FALSE, isFirstRow |-> TRUE,
                 currentTblTitle |-> <<>>, num |-> num, threw |-> FALSE])


(***************************************************************************)
(* The patterns and templates handed to regex()                            *)
(***************************************************************************)
TplHrefOpen ==
    <<"<","a"," ","h","r","e","f","=","\"">>
TplPostOpen ==
    <<"<","a"," ","h","r","e","f","=","\"","/","p","o","s","t","/">>
TplTagEnd ==
    <<"\"",">">>
TplAClose ==
    <<"<","/","a",">">>
TplImgLinkA ==
    <<"<","a"," ","h","r","e","f","=","\"","#","i","m","g","_","b","a","c","k","w","a","r",
    "d","_","l","i","n","k","_">>
TplImgLinkB ==
    <<"\""," ","i","d","=","\"","i","m","g","_","f","o","r","w","a","r","d","_","l","i","n",
    "k","_">>
TplTblLinkA ==
    <<"<","a"," ","h","r","e","f","=","\"","#","t","b","l","_","b","a","c","k","w","a","r",
    "d","_","l","i","n","k","_">>
TplTblLinkB ==
    <<"\""," ","i","d","=","\"","t","b","l","_","f","o","r","w","a","r","d","_","l","i","n",
    "k","_">>
TplEmOpen ==
    <<"U+300C","<","e","m",">">>
TplEmClose ==
    <<"<","/","e","m",">","U+300D">>
TplSpanOpen ==
    <<"<","s","p","a","n"," ","s","t","y","l","e","=","\"","d","i","s","p","l","a","y",":",
    " ","n","o","n","e",";","\"",">">>
TplSpanClose ==
    <<"<","/","s","p","a","n",">">>
TplAttribution ==
    <<"<","p"," ","s","t","y","l","e","=","\"","t","e","x","t","-","a","l","i","g","n",":",
    " ","r","i","g","h","t",";"," ","t","e","x","t","-","i","n","d","e","n","t",":"," ","0",
    ";"," ","p","a","d","d","i","n","g",":"," ","0"," ","2","p","x"," ","0"," ","0",";",
    "\"",">">>
TplPClose ==
    <<"<","/","p",">">>
TplRight ==
    <<" ","<","p"," ","s","t","y","l","e","=","\"","t","e","x","t","-","a","l","i","g","n",
    ":"," ","r","i","g","h","t",";"," "," ","t","e","x","t","-","i","n","d","e","n","t",":",
    " ","0",";","\"",">">>
TplCenter ==
    <<"<","p"," ","s","t","y","l","e","=","\"","t","e","x","t","-","a","l","i","g","n",":",
    " ","c","e","n","t","e","r",";"," ","t","e","x","t","-","i","n","d","e","n","t",":"," ",
    "0",";","\"",">">>
TplLeft ==
    <<" "," ","<","p"," ","s","t","y","l","e","=","\"","t","e","x","t","-","a","l","i","g",
    "n",":"," ","l","e","f","t",";"," "," "," ","t","e","x","t","-","i","n","d","e","n","t",
    ":"," ","0",";","\"",">">>
TplRightIt ==
    <<" ","<","p"," ","s","t","y","l","e","=","\"","f","o","n","t","-","s","t","y","l","e",
    ":"," ","i","t","a","l","i","c",";"," ","t","e","x","t","-","a","l","i","g","n",":"," ",
    "r","i","g","h","t",";"," "," ","t","e","x","t","-","i","n","d","e","n","t",":"," ","0",
    ";","\"",">">>
TplCenterIt ==
    <<"<","p"," ","s","t","y","l","e","=","\"","f","o","n","t","-","s","t","y","l","e",":",
    " ","i","t","a","l","i","c",";"," ","t","e","x","t","-","a","l","i","g","n",":"," ","c",
    "e","n","t","e","r",";"," ","t","e","x","t","-","i","n","d","e","n","t",":"," ","0",";",
    "\"",">">>
TplLeftIt ==
    <<" "," ","<","p"," ","s","t","y","l","e","=","\"","f","o","n","t","-","s","t","y","l",
    "e",":"," ","i","t","a","l","i","c",";"," ","t","e","x","t","-","a","l","i","g","n",":",
    " ","l","e","f","t",";"," "," "," ","t","e","x","t","-","i","n","d","e","n","t",":"," ",
    "0",";","\"",">">>
DirRight ==
    <<".","R","i","g","h","t","{">>
DirCenter ==
    <<".","C","e","n","t","e","r","{">>
DirLeft ==
    <<".","L","e","f","t","{">>
DirRightIt ==
    <<".","r","i","g","h","t","{">>
DirCenterIt ==
    <<".","c","e","n","t","e","r","{">>
DirLeftIt ==
    <<".","l","e","f","t","{">>
Pct20 ==
    <<"%","2","0">>

\* a match: end is the index of its last character (0: no match), g1 and g2
\* are its capture groups
NoMatch == [end |-> 0, g1 |-> <<>>, g2 |-> <<>>]
Match(e, a, b) == [end |-> e, g1 |-> a, g2 |-> b]

\* `.*?` from index i up to the first `close`: the index where close starts, 0
\* when a line terminator or the end of s comes first (j: the first close)
LazyUpTo(s, i, j) == IF j # 0 /\ \A k \in i..(j - 1) : IsDot(s[k]) THEN j ELSE 0

LazyTo(s, i, close) == LazyUpTo(s, i, indexFrom(s, i, close))

\* `\s*` from index i, greedy: the index of its last character (i - 1 when empty)
WsEnd(s, i) ==
    CHOOSE e \in (i - 1)..Len(s) :
        /\ \A k \in i..e : s[k] \in SpaceChars
        /\ e = Len(s) \/ s[e + 1] \notin SpaceChars

\* `.*` from index i, greedy: the index of its last character (i - 1 when empty)
DotEnd(s, i) ==
    CHOOSE e \in (i - 1)..Len(s) :
        /\ \A k \in i..e : IsDot(s[k])
        /\ e = Len(s) \/ ~IsDot(s[e + 1])

\* /\[\[<first>(.*?)\|(.*?)\]\]/ at i; hash: the link text must (TRUE) or must
\* not (FALSE) start with '#'; b: the index of the '|' the first group ends
\* at, c: the index of the "]]" the second group ends at
LinkDescTo(s, i, b, c) ==
    IF c = 0
    THEN NoMatch
    ELSE Match(c + 1, SubSeq(s, i + 2, b - 1), SubSeq(s, b + 1, c - 1))

LinkDescFrom(s, i, b) ==
    IF b = 0 THEN NoMatch ELSE LinkDescTo(s, i, b, LazyTo(s, b + 1, <<"]", "]">>))

LinkDescAt(s, i, hash) ==
    IF HasAt(s, i, <<"[", "[">>) /\ (hash <=> HasAt(s, i + 2, <<"#">>))
    THEN LinkDescFrom(s, i, LazyTo(s, IF hash THEN i + 3 ELSE i + 2, <<"|">>))
    ELSE NoMatch

\* the match of a pattern that ends with a closing literal of length n found
\* at index c (0: not found), its one group being s[a..c-1]
ClosedAt(s, a, c, n) == IF c = 0 THEN NoMatch ELSE Match(c + n - 1, SubSeq(s, a, c - 1), <<>>)

\* /\[\[<first>(.*?)\]\]/ at i
LinkAt(s, i, hash) ==
    IF HasAt(s, i, <<"[", "[">>) /\ (hash <=> HasAt(s, i + 2, <<"#">>))
    THEN ClosedAt(s, i + 2, LazyTo(s, IF hash THEN i + 3 ELSE i + 2, <<"]", "]">>), 2)
    ELSE NoMatch

\* /\[\^(<prefix>.*?)\]/ at i, prefix the figure or the table character
LabelAt(s, i, prefix) ==
    IF HasAt(s, i, <<"[", "^", prefix>>)
    THEN ClosedAt(s, i + 2, LazyTo(s, i + 3, <<"]">>), 1)
    ELSE NoMatch

\* /^<dir>(.*)}/ at i: only at the start of the value, up to the last '}' of the line
DirectiveAt(s, i, dir) ==
    IF i = 1 /\ HasAt(s, 1, dir)
    THEN ClosedAt(s, Len(dir) + 1,
                  MaxOrZero({c \in (Len(dir) + 1)..Len(s) :
                                s[c] = "}" /\ \A k \in (Len(dir) + 1)..(c - 1) : IsDot(s[k])}),
                  1)
    ELSE NoMatch

\* the match with a space kept between its two groups
CollapseAtKeepsSpace(s, i, e) ==
    IF e >= i + 3 /\ e < Len(s) /\ s[e + 1] \in CJKChars
    THEN Match(e + 1, <<YI, "-", YU, " ">>, <<s[e + 1]>>)
    ELSE NoMatch

\* /(一-龥)\s+([一-龥])/ at i, e the end of the white space
CollapseAt(s, i, e) ==
    IF e >= i + 3 /\ e < Len(s) /\ s[e + 1] \in CJKChars
    THEN Match(e + 1, <<YI, "-", YU>>, <<s[e + 1]>>)
    ELSE NoMatch

\* the alternative \s*』 of the hidden-quote pattern at i, e the end of the white space
HiddenCloseAt(s, i, e) ==
    IF e < Len(s) /\ s[e + 1] = RDQ THEN Match(e + 1, SubSeq(s, i, e + 1), <<>>) ELSE NoMatch

\* a match that runs from i to e, its one group being s[a..e]
Through(s, a, e) == Match(e, SubSeq(s, a, e), <<>>)

\* the literal prefix of an alignment-directive pattern
DirectivePrefix(rx) ==
    CASE rx = "Right" -> DirRight
      [] rx = "Center" -> DirCenter
      [] rx = "Left" -> DirLeft
      [] rx = "right" -> DirRightIt
      [] rx = "center" -> DirCenterIt
      [] rx = "left" -> DirLeftIt

\* the pattern named rx matched at index i of s
MatchAt(rx, s, i) ==
    CASE rx = "cjkLatin" ->
            IF s[i] \in CJKChars /\ i < Len(s) /\ s[i + 1] \in AlnumChars
            THEN Match(i + 1, <<s[i]>>, <<s[i + 1]>>) ELSE NoMatch
      [] rx = "latinCjk" ->
            IF s[i] \in AlnumChars /\ i < Len(s) /\ s[i + 1] \in CJKChars
            THEN Match(i + 1, <<s[i]>>, <<s[i + 1]>>) ELSE NoMatch
      [] rx \in {"anchorDesc", "postDesc"} -> LinkDescAt(s, i, rx = "anchorDesc")
      [] rx \in {"anchor", "post"} -> LinkAt(s, i, rx = "anchor")
      [] rx \in {"imgLink", "tblLink"} -> LabelAt(s, i, IF rx = "imgLink" THEN TU ELSE BIAO)
      [] rx = "emphasis" ->
            IF s[i] = LQ THEN ClosedAt(s, i + 1, indexFrom(s, i + 1, <<RQ>>), 1) ELSE NoMatch
      [] rx = "collapse" ->
            IF HasAt(s, i, <<YI, "-", YU>>) THEN CollapseAt(s, i, WsEnd(s, i + 3)) ELSE NoMatch
      [] rx = "hidden" ->
            IF s[i] = LDQ
            THEN Through(s, i, WsEnd(s, i + 1))
            ELSE IF s[i] \in SpaceChars \cup {RDQ}
            THEN HiddenCloseAt(s, i, WsEnd(s, i))
            ELSE NoMatch
      [] rx = "attribution" ->
            IF HasAt(s, i, <<EMDASH, EMDASH, EMDASH>>)
            THEN Through(s, i + 1, DotEnd(s, i + 3))
            ELSE NoMatch
      [] OTHER -> DirectiveAt(s, i, DirectivePrefix(rx))

\* the template of the pattern named rx, with the groups of match m filled in
Expand(rx, m) ==
    CASE rx = "anchorDesc" -> TplHrefOpen \o m.g1 \o TplTagEnd \o m.g2 \o TplAClose
      [] rx = "anchor" -> TplHrefOpen \o m.g1 \o TplTagEnd \o m.g1 \o TplAClose
      [] rx = "postDesc" -> TplPostOpen \o m.g1 \o TplTagEnd \o m.g2 \o TplAClose
      [] rx = "post" -> TplPostOpen \o m.g1 \o TplTagEnd \o m.g1 \o TplAClose
      [] rx = "imgLink" ->
            TplImgLinkA \o m.g1 \o TplImgLinkB \o m.g1 \o TplTagEnd \o m.g1 \o TplAClose
      [] rx = "tblLink" ->
            TplTblLinkA \o m.g1 \o TplTblLinkB \o m.g1 \o TplTagEnd \o m.g1 \o TplAClose
      [] rx = "emphasis" -> TplEmOpen \o m.g1 \o TplEmClose
      [] rx = "cjkLatin" -> m.g1 \o <<" ">> \o m.g2
      [] rx = "latinCjk" -> m.g1 \o <<" ">> \o m.g2
      [] rx = "collapse" -> m.g1 \o m.g2
      [] rx = "hidden" -> TplSpanOpen \o m.g1 \o TplSpanClose
      [] rx = "attribution" -> TplAttribution \o m.g1 \o TplPClose
      [] rx = "Right" -> TplRight \o m.g1 \o TplPClose
      [] rx = "Center" -> TplCenter \o m.g1 \o TplPClose
      [] rx = "Left" -> TplLeft \o m.g1 \o TplPClose
      [] rx = "right" -> TplRightIt \o m.g1 \o TplPClose
      [] rx = "center" -> TplCenterIt \o m.g1 \o TplPClose
      [] rx = "left" -> TplLeftIt \o m.g1 \o TplPClose

\* the characters a match of rx can start with (the first character every match
\* of the pattern has; the search below tries a match only at these)
FirstChars(rx) ==
    CASE rx \in {"anchorDesc", "anchor", "postDesc", "post", "imgLink", "tblLink"} -> {"["}
      [] rx = "emphasis" -> {LQ}
      [] rx = "cjkLatin" -> CJKChars
      [] rx = "latinCjk" -> AlnumChars
      [] rx = "collapse" -> {YI}
      [] rx = "hidden" -> SpaceChars \cup {LDQ, RDQ}
      [] rx = "attribution" -> {EMDASH}
      [] rx \in {"Right", "Center", "Left", "right", "center", "left"} -> {"."}

\* the index of the first match of rx at or after index p, 0 when there is none
FirstMatch(rx, s, p) ==
    MinOrZero({j \in {k \in p..Len(s) : s[k] \in FirstChars(rx)} : MatchAt(rx, s, j).end # 0})

\* value.replace(regex, template) with the global flag, from index p on; q is
\* where the next match starts and m is that match
RECURSIVE ReplaceFrom(_, _, _)
ReplaceMatch(rx, s, p, q, m) ==
    SubSeq(s, p, q - 1) \o Expand(rx, m) \o ReplaceFrom(rx, s, m.end + 1)

ReplaceAt(rx, s, p, q) ==
    IF q = 0 THEN From(s, p) ELSE ReplaceMatch(rx, s, p, q, MatchAt(rx, s, q))

ReplaceFrom(rx, s, p) == ReplaceAt(rx, s, p, FirstMatch(rx, s, p))

Replace(rx, s) == ReplaceFrom(rx, s, 1)

(***************************************************************************)
(* regex                                                                   *)
(***************************************************************************)
\* what regex() pushes for a text, html or blockquote child, replaced being
\* child.value.replace(regex, template)
RegexResult(child, replaced) ==
    IF replaced = child.value
    THEN IF child.type = "html" THEN child ELSE Text(child.value)
    ELSE Html(replaced)

\* what regex() pushes for one child
RegexChild(child, rx) ==
    IF child.type # "text" /\ child.type # "html" /\ child.type # "blockquote"
    THEN child
    ELSE RegexResult(child, Replace(rx, child.value))

\* a blockquote child has no value: child.value.replace throws a TypeError
regexThrows(children) == \E j \in 1..Len(children) : children[j].type = "blockquote"

regex(children, rx) == [j \in 1..Len(children) |-> RegexChild(children[j], rx)]

(***************************************************************************)
(* The visitor: what markdownReplace does for one visited node             *)
(***************************************************************************)
\* child.value.replace(/%20/g, ' ')
DecodeSpaces(s) == ReplaceLiteralFrom(s, Pct20, <<" ">>, 1)

\* the first for loop of the visitor
Decode(children) ==
    [j \in 1..Len(children) |->
        IF children[j].type \in {"text", "html"} /\ children[j].value # <<>>
        THEN [children[j] EXCEPT !.value = DecodeSpaces(@)]
        ELSE children[j]]

\* the passes with footnoteRegex called before transformCustomFootnotes
PassesCollectorFirst ==
    <<"decode", "footnote", "splice", "anchorDesc", "anchor", "postDesc", "post",
      "img", "imgLink", "tbl", "tblLink", "emphasis", "cjkLatin", "latinCjk",
      "collapse", "collapse", "collapse", "hidden", "attribution",
      "Right", "Center", "Left", "right", "center", "left">>

\* the passes of the visitor in the order it runs them: the decoding loop,
\* transformCustomFootnotes, footnoteRegex, imgRegex, tblRegex, and a regex()
\* call under the name of its pattern
Passes ==
    <<"decode", "splice", "anchorDesc", "anchor", "postDesc", "post", "footnote",
      "img", "imgLink", "tbl", "tblLink", "emphasis", "cjkLatin", "latinCjk",
      "collapse", "collapse", "collapse", "hidden", "attribution",
      "Right", "Center", "Left", "right", "center", "left">>

\* node.children and the globals after footnoteRegex returned f
AfterFootnote(st, f) ==
    [children |-> f.out, g |-> [st.g EXCEPT !.foot = f.num, !.foots = f.foots],
     threw |-> FALSE]

\* imgRegex inside a try block that swallows the error
AfterImgSwallowed(st, i) ==
    [children |-> IF i.threw THEN st.children ELSE i.out,
     g |-> [st.g EXCEPT !.img = i.num], threw |-> FALSE]

\* node.children and the globals after imgRegex returned, or threw, i
AfterImg(st, i) ==
    [children |-> IF i.threw THEN st.children ELSE i.out,
     g |-> [st.g EXCEPT !.img = i.num], threw |-> i.threw]

\* node.children and the globals after tblRegex returned, or threw, t
AfterTbl(st, t) ==
    [children |-> IF t.threw THEN t.kids ELSE t.out,
     g |-> [st.g EXCEPT !.tbl = t.num], threw |-> t.threw]

\* one pass on st = [children, g, threw]: children is node.children, g =
\* [img, tbl, foot, foots] the three counters and collectedFootnotes, threw
\* whether the pass threw (node.children is then not assigned)
ApplyPass(pass, st) ==
    CASE pass = "decode" -> [st EXCEPT !.children = Decode(@)]
      [] pass = "splice" -> [st EXCEPT !.children = transformCustomFootnotes(@)]
      [] pass = "footnote" ->
            AfterFootnote(st, footnoteRegex(st.children, st.g.foot, st.g.foots))
      [] pass = "img" -> AfterImg(st, imgRegex(st.children, st.g.img))
      [] pass = "tbl" -> AfterTbl(st, tblRegex(st.children, st.g.tbl))
      [] OTHER ->
            IF regexThrows(st.children)
            THEN [st EXCEPT !.threw = TRUE]
            ELSE [st EXCEPT !.children = regex(@, pass)]

\* the passes run in order until one throws
RECURSIVE RunPasses(_, _)
RunPasses(passes, st) ==
    IF passes = <<>> \/ st.threw
    THEN st
    ELSE RunPasses(Tail(passes), ApplyPass(Head(passes), st))

\* the visitor on a node with these children and the globals g: node.children
\* and the globals as the visitor leaves them, and whether it threw
Visitor(children, g) == RunPasses(Passes, [children |-> children, g |-> g, threw |-> FALSE])

(***************************************************************************)
(* The tree and visit()                                                    *)
(***************************************************************************)
Root(children) == Parent("root", children)

\* a path is the sequence of child indices from the root (1-based); End is the
\* position after the last node
End == <<0>>

RECURSIVE NodeAt(_, _)
NodeAt(n, path) ==
    IF path = <<>> THEN n ELSE NodeAt(n.children[Head(path)], Tail(path))

\* the tree with node.children replaced at path
RECURSIVE SetChildren(_, _, _)
SetChildren(n, path, ch) ==
    IF path = <<>>
    THEN [n EXCEPT !.children = ch]
    ELSE [n EXCEPT !.children[Head(path)] = SetChildren(@, Tail(path), ch)]

\* the test visit() is called with
IsVisited(n) == n.type \in {"paragraph", "table", "tableCell"}

\* visit() leaving a node whose children are done: on to the next sibling of
\* the node or of its closest ancestor that has one
RECURSIVE NextUp(_, _)
NextUp(root, path) ==
    IF path = <<>>
    THEN End
    ELSE LET parent == SubSeq(path, 1, Len(path) - 1)
             k == path[Len(path)]
         IN IF k < Len(NodeAt(root, parent).children)
            THEN Append(parent, k + 1)
            ELSE NextUp(root, parent)

\* the node visit() reaches after the one at path: its first child, read after
\* the visitor ran, else the next node up
NextNode(root, path) ==
    IF Len(NodeAt(root, path).children) > 0 THEN Append(path, 1) ELSE NextUp(root, path)

\* the first node at or after path that passes the test
RECURSIVE SeekVisited(_, _)
SeekVisited(root, path) ==
    IF path = End THEN End
    ELSE IF IsVisited(NodeAt(root, path)) THEN path
    ELSE SeekVisited(root, NextNode(root, path))

(***************************************************************************)
(* After the visit: the trailing mark and the footnote section             *)
(***************************************************************************)
\* the index in tree.children the backward loop stops at, 0 when it finds none
LastParagraph(children) ==
    LET found == {i \in 1..Len(children) :
                     children[i].type = "paragraph" /\ Len(children[i].children) > 0}
    IN IF found = {} THEN 0 ELSE CHOOSE i \in found : \A j \in found : j <= i

\* tree.children after the trailing-mark block
TrailingMarked(children) ==
    LET p == LastParagraph(children)
    IN IF p = 0 THEN children
       ELSE LET n == Len(children[p].children)
                lastNodeInParagraph == children[p].children[n]
            IN IF lastNodeInParagraph.type \in {"text", "html"}
               THEN [children EXCEPT ![p].children[n].value = @ \o <<PILCROW>>]
               ELSE children

\* the node pushed for one collected footnote
NoteBlock(footnote) ==
    Html(NoteA \o ToDecimal(footnote.num) \o NoteB \o ToDecimal(footnote.num) \o NoteC
         \o ToDecimal(footnote.num) \o NoteD \o footnote.content \o NoteE)

\* the footnote-section block without its test of the length
WithFootnoteSectionAlways(children, foots) ==
    children \o <<Html(Divider)>> \o [k \in 1..Len(foots) |-> NoteBlock(foots[k])]

\* tree.children after the footnote-section block
WithFootnoteSection(children, foots) ==
    IF Len(foots) > 0
    THEN children \o <<Html(Divider)>> \o [k \in 1..Len(foots) |-> NoteBlock(foots[k])]
    ELSE children


(***************************************************************************)
(* The transformer as a function of the tree it is handed                  *)
(***************************************************************************)
\* the globals after the four assignments at the top of the transformer
FreshGlobals == [img |-> 0, tbl |-> 0, foot |-> 0, foots |-> <<>>]

\* visit() after the visitor returned r for the node at path, w = [tree, g,
\* threw] being what it was handed: the node's children are assigned, and
\* visit() moves on to the next node that passes the test, unless the visitor
\* threw (at: where visit() is, End when it is through or left by the error)
VisitNext(w, path, r) ==
    [tree |-> SetChildren(w.tree, path, r.children),
     g |-> r.g,
     threw |-> r.threw,
     at |-> IF r.threw
            THEN End
            ELSE SeekVisited(SetChildren(w.tree, path, r.children),
                             NextNode(SetChildren(w.tree, path, r.children), path))]

\* visit() from the node at v.at on, a node that passes the test; v = [tree,
\* g, threw, at]
RECURSIVE VisitFrom(_)
VisitFrom(v) ==
    IF v.at = End
    THEN [tree |-> v.tree, g |-> v.g, threw |-> v.threw]
    ELSE VisitFrom(VisitNext(v, v.at, Visitor(NodeAt(v.tree, v.at).children, v.g)))

\* the two blocks after visit(), skipped when the visitor threw
Finish(w) ==
    IF w.threw THEN w
    ELSE [w EXCEPT !.tree.children = WithFootnoteSection(TrailingMarked(@), w.g.foots)]

\* the transformer called on doc: the tree and the globals it leaves, and
\* whether it threw
Transform(doc) ==
    Finish(VisitFrom([tree |-> doc, g |-> FreshGlobals, threw |-> FALSE,
                      at |-> SeekVisited(doc, <<>>)]))

(***************************************************************************)
(* Documents the transformer is run on                                     *)
(***************************************************************************)
MaxBlocks == 2     \* root children of an enumerated document
MaxRuns == 2       \* transformer invocations in one behaviour

Para(ch) == Parent("paragraph", ch)
Cell(ch) == Parent("tableCell", ch)
Row(cells) == Parent("tableRow", cells)
Table(rows) == Parent("table", rows)
Link(ch) == Node("link", <<>>, ch, <<"h">>, <<>>)

\* x[^a]y[^b]
PFoot2 == Para(<<Text(<<"x", "[", "^", "a", "]", "y", "[", "^", "b", "]">>)>>)
\* two images around a text; the second has no alt text and an attachments url
PImgs ==
    Para(<<Image(<<"u">>, <<"p">>), Text(<<"%", "2", "0">>),
           Image(<<"d", "/">> \o AttachmentsSeg \o <<"f">>, <<>>)>>)
PImg1 == Para(<<Image(<<"v">>, <<"q", "\"">>)>>)
\* k^[d](h)]z[^c] as the parser hands it over: text, link, text
PCustom ==
    Para(<<Text(<<"k", "^", "[">>), Link(<<Text(<<"d">>)>>),
           Text(<<"]", "z", "[", "^", "c", "]">>)>>)
\* a paragraph whose last child is a link
PLink == Para(<<Text(<<"q">>), Link(<<Text(<<"d">>)>>)>>)
PEmpty == Para(<<>>)
\* a two-row table: title cell R, a footnote marker in the second cell
TBasic ==
    Table(<<Row(<<Cell(<<Text(<<"R">>)>>), Cell(<<Text(<<"[", "^", "e", "]">>)>>)>>),
            Row(<<Cell(<<Text(<<"v">>)>>)>>)>>)
\* a paragraph inside a block quote
QNest == Parent("blockquote", <<Para(<<Text(<<"n", "[", "^", "f", "]">>)>>)>>)
\* references to a figure and to a table, then CJK next to Latin
PRefs ==
    Para(<<Text(<<"[", "^", TU, YI, "]", "[", "^", BIAO, YI, "]", "U+4E2D", "a">>)>>)

Blocks == {PFoot2, PImgs, PImg1, PCustom, PLink, PEmpty, TBasic, QNest, PRefs}

RECURSIVE SeqsUpTo(_, _)
SeqsUpTo(S, n) ==
    IF n = 0 THEN {<<>>}
    ELSE LET shorter == SeqsUpTo(S, n - 1)
         IN shorter \cup {Append(q, x) : q \in shorter, x \in S}

\* more images, or tables, than numberToChinese can number, then a paragraph
\* with footnotes: paragraphs of ImagesPerParagraph images each, and tables of
\* one row each
ImagesPerParagraph == 10
ImgOverflowDoc ==
    Root([k \in 1..((MaxOrdinal \div ImagesPerParagraph) + 1) |->
             Para([i \in 1..ImagesPerParagraph |-> Image(<<"u">>, <<"p">>)])]
         \o <<PFoot2>>)
TblOverflowDoc ==
    Root([k \in 1..(MaxOrdinal + 1) |-> Table(<<Row(<<Cell(<<Text(<<"R">>)>>)>>)>>)]
         \o <<PFoot2>>)

Docs == {Root(q) : q \in SeqsUpTo(Blocks, MaxBlocks)} \cup {ImgOverflowDoc, TblOverflowDoc}

\* a document a later invocation may be handed instead of the tree it produced
RerunDocs == {Root(<<PImgs, TBasic>>)}

(***************************************************************************)
(* The transformer as a state machine                                      *)
(***************************************************************************)
\* the assignments at the top of the transformer without the one that
\* empties the footnote list
ResetStateKeepsFootnotes ==
    /\ imgNum' = 0
    /\ tblNum' = 0
    /\ footNoteNum' = 0
    /\ collectedFootnotes' = collectedFootnotes

\* the four assignments at the top of the transformer
ResetState ==
    /\ imgNum' = 0
    /\ tblNum' = 0
    /\ footNoteNum' = 0
    /\ collectedFootnotes' = <<>>

\* the transformer entered while an invocation is still at work
InvokeReentrant(doc) ==
    /\ runs < MaxRuns
    /\ ResetState
    /\ tree' = doc
    /\ input' = doc
    /\ rerun' = (pc = "done" /\ doc = tree)
    /\ runs' = runs + 1
    /\ nvisited' = 0
    /\ cur' = SeekVisited(doc, <<>>)
    /\ pc' = IF cur' = End THEN "mark" ELSE "visit"
    /\ UNCHANGED loc

\* the transformer is called on doc: the resets, then visit() looks for the
\* first node to hand to the visitor
Invoke(doc) ==
    /\ pc \in {"idle", "done", "aborted"}
    /\ runs < MaxRuns
    /\ ResetState
    /\ tree' = doc
    /\ input' = doc
    /\ rerun' = (pc = "done" /\ doc = tree)
    /\ runs' = runs + 1
    /\ nvisited' = 0
    /\ cur' = SeekVisited(doc, <<>>)
    /\ pc' = IF cur' = End THEN "mark" ELSE "visit"
    /\ UNCHANGED loc

\* the globals as the visitor's passes take them
Globals ==
    [img |-> imgNum, tbl |-> tblNum, foot |-> footNoteNum, foots |-> collectedFootnotes]

\* the state after the visitor ran on the node at cur with result r: visit()
\* moves on to the next node that passes the test, or the error leaves the
\* transformer
Visited(r) ==
    /\ tree' = SetChildren(tree, cur, r.children)
    /\ imgNum' = r.g.img
    /\ tblNum' = r.g.tbl
    /\ footNoteNum' = r.g.foot
    /\ collectedFootnotes' = r.g.foots
    /\ nvisited' = nvisited + 1
    /\ cur' = IF r.threw THEN cur ELSE SeekVisited(tree', NextNode(tree', cur))
    /\ pc' = IF r.threw THEN "aborted" ELSE IF cur' = End THEN "mark" ELSE "visit"

\* visit() hands the node at cur to the visitor
Visit ==
    /\ pc = "visit"
    /\ Visited(Visitor(NodeAt(tree, cur).children, Globals))
    /\ UNCHANGED <<runs, input, rerun, loc>>

\* the block that appends the pilcrow
TrailingMark ==
    /\ pc = "mark"
    /\ tree' = [tree EXCEPT !.children = TrailingMarked(@)]
    /\ pc' = "notes"
    /\ UNCHANGED <<cur, globals, runs, nvisited, input, rerun, loc>>

\* the block that appends the footnote section; the transformer returns
FootnoteSection ==
    /\ pc = "notes"
    /\ tree' = [tree EXCEPT !.children = WithFootnoteSection(@, collectedFootnotes)]
    /\ pc' = "done"
    /\ UNCHANGED <<cur, globals, runs, nvisited, input, rerun, loc>>

\* the trees an invocation may be handed: any document at first, later the
\* tree the last invocation left or another document
Inputs == IF pc = "idle" THEN Docs ELSE {tree} \cup RerunDocs

\* the module is loaded and the transformer has not been called
Loaded ==
    /\ tree = Root(<<>>)
    /\ input = Root(<<>>)
    /\ pc = "idle"
    /\ cur = End
    /\ imgNum = 0
    /\ tblNum = 0
    /\ footNoteNum = 0
    /\ collectedFootnotes = <<>>
    /\ runs = 0
    /\ nvisited = 0
    /\ rerun = FALSE

Init == Loaded /\ loc = [fn |-> "none"]

Next ==
    \/ \E doc \in Inputs : Invoke(doc)
    \/ Visit
    \/ TrailingMark
    \/ FootnoteSection

Spec == Init /\ [][Next]_vars

(***************************************************************************)
(* numberToChinese called on its own                                       *)
(***************************************************************************)
\* the integers the formatter is called with: below, in and above its range
OrdinalInputs == (-1)..(MaxOrdinal + 2)

InitOrdinal ==
    /\ Loaded
    /\ loc \in {[fn |-> "numberToChinese", at |-> "call", num |-> n, result |-> <<>>] :
                   n \in OrdinalInputs}

\* the call returns the numeral or throws
Format ==
    /\ loc.fn = "numberToChinese"
    /\ loc.at = "call"
    /\ loc' = IF numberToChineseThrows(loc.num)
              THEN [loc EXCEPT !.at = "threw"]
              ELSE [loc EXCEPT !.at = "returned", !.result = numberToChinese(loc.num)]
    /\ UNCHANGED <<transformerVars, globals>>

SpecOrdinal == InitOrdinal /\ [][Format]_vars

(***************************************************************************)
(* The transformer, and numberToChinese called on its own                  *)
(***************************************************************************)
InitFatal == Init \/ InitOrdinal

\* a behaviour is the transformer at work or one call of the formatter
NextFatal == (loc.fn = "none" /\ Next) \/ Format

SpecFatal == InitFatal /\ [][NextFatal]_vars

(***************************************************************************)
(* tblRegex called on its own                                              *)
(***************************************************************************)
MaxSibs == 3       \* nodes in a sibling list handed to tblRegex, footnoteRegex or regex

\* the nodes of the sibling lists: two rows with a title cell each, a row
\* without cells, a text and an empty paragraph
TblSibs == {Row(<<Cell(<<Text(<<"R">>)>>)>>), Row(<<Cell(<<Text(<<"S">>)>>)>>),
            Row(<<>>), Text(<<"t">>), Para(<<>>)}

\* the values of tblRegex.tblNum the call starts from: a fresh counter, and one
\* that lets a single caption through before numberToChinese throws
TblStarts == {0, MaxOrdinal - 1}

InitTbl ==
    /\ Loaded
    /\ loc \in {[fn |-> "tblRegex", at |-> "call", children |-> q, start |-> n,
                 num |-> n, out |-> <<>>] :
                   q \in SeqsUpTo(TblSibs, MaxSibs), n \in TblStarts}

\* loc after the call came back with t
TblReturned(t) ==
    loc' = [loc EXCEPT !.at = IF t.threw THEN "threw" ELSE "returned",
                       !.num = t.num,
                       !.out = IF t.threw THEN <<>> ELSE t.out]

TblCall ==
    /\ loc.fn = "tblRegex"
    /\ loc.at = "call"
    /\ TblReturned(tblRegex(loc.children, loc.num))
    /\ UNCHANGED <<transformerVars, globals>>

SpecTbl == InitTbl /\ [][TblCall]_vars

(***************************************************************************)
(* transformCustomFootnotes called on its own, one loop iteration a step   *)
(***************************************************************************)
MaxPending == 5    \* nodes in a sibling list handed to transformCustomFootnotes

\* the nodes of the sibling lists: a^[ and ]^[ and ]b as texts, a link around
\* the text d and a link without children
SpliceSibs ==
    {Text(<<"a", "^", "[">>), Text(<<"]", "^", "[">>), Text(<<"]", "b">>),
     Link(<<Text(<<"d">>)>>), Link(<<>>)}

InitSplice ==
    /\ Loaded
    /\ loc \in {[fn |-> "transformCustomFootnotes", at |-> "loop", input |-> q,
                 children |-> q, newChildren |-> <<>>, out |-> <<>>,
                 iterations |-> 0, matches |-> 0] :
                   q \in SeqsUpTo(SpliceSibs, MaxPending)}

\* loc after an iteration that left the pending list as it found it
SpliceSteppedKeepsPending(st) ==
    loc' = [loc EXCEPT !.newChildren = st.newChildren,
                       !.iterations = @ + 1,
                       !.matches = IF SpliceMatches(loc.children) THEN @ + 1 ELSE @]

\* loc after one iteration of the while loop left st; iterations counts the
\* iterations and matches those that took the if branch
SpliceStepped(st) ==
    loc' = [loc EXCEPT !.children = st.children, !.newChildren = st.newChildren,
                       !.iterations = @ + 1,
                       !.matches = IF SpliceMatches(loc.children) THEN @ + 1 ELSE @]

\* one iteration of the while loop
SpliceStep ==
    /\ loc.fn = "transformCustomFootnotes"
    /\ loc.at = "loop"
    /\ Len(loc.children) > 0
    /\ SpliceStepped(SpliceIter([children |-> loc.children,
                                 newChildren |-> loc.newChildren]))
    /\ UNCHANGED <<transformerVars, globals>>

\* the loop is left; the merge of adjacent texts, and the return
SpliceReturn ==
    /\ loc.fn = "transformCustomFootnotes"
    /\ loc.at = "loop"
    /\ Len(loc.children) = 0
    /\ loc' = [loc EXCEPT !.at = "returned", !.out = mergeAdjacent(loc.newChildren)]
    /\ UNCHANGED <<transformerVars, globals>>

NextSplice == SpliceStep \/ SpliceReturn

SpecSplice == InitSplice /\ [][NextSplice]_vars

\* the function is synchronous code: once called it runs on until it returns
SpecSpliceLive == SpecSplice /\ WF_vars(NextSplice)

(***************************************************************************)
(* Properties: what they are stated with                                   *)
(***************************************************************************)
\* the numerals one to nine
Numerals ==
    <<"U+4E00", "U+4E8C", "U+4E09", "U+56DB", "U+4E94",
      "U+516D", "U+4E03", "U+516B", "U+4E5D">>

\* the reference rendering of n in 1..99: the tens digit from twenty on, the
\* ten from ten on, the ones digit unless it is zero
ReferenceNumeral(n) ==
    (IF n >= 20 THEN <<Numerals[n \div 10]>> ELSE <<>>)
    \o (IF n >= 10 THEN <<"U+5341">> ELSE <<>>)
    \o (IF n % 10 # 0 THEN <<Numerals[n % 10]>> ELSE <<>>)

\* the passes the visitor runs before the pass of this name
PassesBefore(name) ==
    SubSeq(Passes, 1, (CHOOSE i \in 1..Len(Passes) : Passes[i] = name) - 1)

\* node.children of the node about to be visited as the pass of this name
\* gets it, and whether an earlier pass threw
SeenBy(name) ==
    RunPasses(PassesBefore(name),
              [children |-> NodeAt(tree, cur).children, g |-> Globals, threw |-> FALSE])

\* the contents of the footnote markers of s from index i on, left to right: a
\* marker is [^ not followed by the figure or table character, up to the next ]
RECURSIVE MarkersFrom(_, _)
MarkersFrom(s, i) ==
    IF i + 2 > Len(s)
    THEN <<>>
    ELSE IF /\ s[i] = "[" /\ s[i + 1] = "^" /\ s[i + 2] \notin {TU, BIAO}
            /\ \E j \in (i + 2)..Len(s) : s[j] = "]"
    THEN LET close == CHOOSE j \in (i + 2)..Len(s) :
                          s[j] = "]" /\ \A k \in (i + 2)..(j - 1) : s[k] # "]"
         IN <<SubSeq(s, i + 2, close - 1)>> \o MarkersFrom(s, close + 1)
    ELSE MarkersFrom(s, i + 1)

\* the contents of the markers in the text and html nodes of a sibling list
RECURSIVE MarkersOf(_, _)
MarkersOf(children, j) ==
    IF j > Len(children)
    THEN <<>>
    ELSE (IF children[j].type \in {"text", "html"}
          THEN MarkersFrom(children[j].value, 1)
          ELSE <<>>)
         \o MarkersOf(children, j + 1)

\* the entries for these marker contents, numbered from base + 1
Numbered(contents, base) ==
    [k \in 1..Len(contents) |-> [num |-> base + k, content |-> contents[k]]]

IsRefLink(n) == n.type = "html" /\ startsWith(n.value, FootRefA)
IsFigureBlock(n) == n.type = "html" /\ startsWith(n.value, FigA)
IsCaption(n) == n.type = "html" /\ startsWith(n.value, CapA)
IsRow(n) == n.type = "tableRow"

\* the reference links among these siblings, left to right
RefLinks(children) == SelectSeq(children, IsRefLink)

\* the html nodes of this kind in the subtree of node
RECURSIVE CountIn(_, _)
CountIn(node, kind) ==
    LET here == CASE kind = "ref" -> IsRefLink(node)
                  [] kind = "figure" -> IsFigureBlock(node)
                  [] kind = "caption" -> IsCaption(node)
                  [] kind = "mark" -> Contains(node.value, <<PILCROW>>)
        below == [k \in 1..Len(node.children) |-> CountIn(node.children[k], kind)]
        sumTo[k \in 0..Len(below)] == IF k = 0 THEN 0 ELSE sumTo[k - 1] + below[k]
    IN (IF here THEN 1 ELSE 0) + sumTo[Len(below)]

(***************************************************************************)
(* Properties                                                              *)
(***************************************************************************)
\* the footnote list agrees with the counter, entry i has number i, and the
\* ids of two entries differ
FootnoteLog ==
    /\ footNoteNum = Len(collectedFootnotes)
    /\ \A i \in 1..Len(collectedFootnotes) : collectedFootnotes[i].num = i
    /\ \A i, j \in 1..Len(collectedFootnotes) :
          i # j =>
            /\ FootRefB \o ToDecimal(collectedFootnotes[i].num)
                 # FootRefB \o ToDecimal(collectedFootnotes[j].num)
            /\ NoteB \o ToDecimal(collectedFootnotes[i].num)
                 # NoteB \o ToDecimal(collectedFootnotes[j].num)

\* a visit of a node, seen being what footnoteRegex gets: the markers it
\* holds are appended in order, numbered on from the counter, and the
\* reference links of a node that held none carry these numbers in order
FootnotesAppended(seen) ==
    IF seen.threw
    THEN UNCHANGED collectedFootnotes
    ELSE /\ collectedFootnotes'
              = collectedFootnotes \o Numbered(MarkersOf(seen.children, 1), footNoteNum)
         /\ RefLinks(seen.children) = <<>> =>
               RefLinks(NodeAt(tree', cur).children)
                 = [k \in 1..(Len(collectedFootnotes') - Len(collectedFootnotes)) |->
                       Html(FootRef(footNoteNum + k))]

FootnoteStep ==
    /\ pc = "visit" => FootnotesAppended(SeenBy("footnote"))
    /\ pc \in {"mark", "notes"} => UNCHANGED collectedFootnotes

\* C1: footnotes are numbered in the order their markers are met: a visit
\* appends one entry per marker of the node, left to right, numbered on from
\* the counter, and the list only grows within a traversal; in every state
\* the counter is the length of the list, entry i has number i and the ids
\* are pairwise distinct
FootnoteOrder == [](FootnoteLog) /\ [][FootnoteStep]_vars

\* two nodes with two markers each, the second node through the splicer
FootnoteOrderWitness ==
    /\ pc = "done"
    /\ input = Root(<<PFoot2, PCustom>>)
    /\ footNoteNum = 4
    /\ [k \in 1..4 |-> collectedFootnotes[k].content] = <<<<"a">>, <<"b">>, <<"d">>, <<"c">>>>

\* the tree an invocation aborted by the hundredth image leaves
AbortedImgTree == Transform(ImgOverflowDoc).tree

\* the state is what the transformer called on the input with fresh globals leaves
Outcome(t) ==
    /\ tree = t.tree
    /\ Globals = t.g
    /\ (pc = "aborted") = t.threw

\* C2: an invocation starts from fresh state whatever ran before: before the
\* first node is visited the three counters are 0 and the footnote list is
\* empty, and what an invocation leaves is what the transformer leaves when
\* called on that tree from a freshly loaded module
FreshStart ==
    /\ pc \in {"visit", "mark"} /\ nvisited = 0 =>
          imgNum = 0 /\ tblNum = 0 /\ footNoteNum = 0 /\ collectedFootnotes = <<>>
    /\ pc \in {"done", "aborted"} => Outcome(Transform(input))

\* a second invocation, on the tree an aborted invocation left, is complete
FreshStartWitness ==
    /\ runs = 2
    /\ pc = "done"
    /\ imgNum = ImagesPerParagraph
    /\ input = AbortedImgTree

\* the nodes of the footnote section for these entries
ExpectedSection(foots) ==
    IF foots = <<>>
    THEN <<>>
    ELSE <<Html(Divider)>>
         \o [k \in 1..Len(foots) |->
                Html(NoteA \o ToDecimal(k) \o NoteB \o ToDecimal(k) \o NoteC
                     \o ToDecimal(k) \o NoteD \o foots[k].content \o NoteE)]

\* C3: the footnote section: when and only when footnotes were collected the
\* divider and one block per footnote, in collection order, block k with
\* number k and the content collected, are appended to the root's children;
\* the paragraph x[^a]y[^b] gives the two entries a then b
SectionEmitted ==
    /\ [](pc = "done" =>
            SubSeq(tree.children, Len(input.children) + 1, Len(tree.children))
              = ExpectedSection(collectedFootnotes))
    /\ [](pc = "done" /\ input = Root(<<PFoot2>>) =>
            [k \in 1..Len(collectedFootnotes) |-> collectedFootnotes[k].content]
              = <<<<"a">>, <<"b">>>>)
    /\ [][pc = "notes" =>
            tree' = [tree EXCEPT !.children = @ \o ExpectedSection(collectedFootnotes)]]_vars

SectionEmittedWitness ==
    /\ pc = "done"
    /\ input = Root(<<PFoot2>>)
    /\ Len(tree.children) = 4
    /\ tree.children[2] = Html(Divider)

\* the figure block for the image numbered k: the float class by the parity
\* of k, and the numeral of k as its label
IsFigureNumbered(n, k) ==
    /\ n.type = "html"
    /\ startsWith(n.value, FigA \o (IF k % 2 = 1 THEN FloatRight ELSE FloatLeft) \o FigB)
    /\ Contains(n.value, FigF \o ReferenceNumeral(k) \o FigG)

\* the images among the first i of these siblings
ImagesUpTo(kids, i) == Cardinality({j \in 1..i : kids[j].type = "image"})

\* a visit of a node, seen being what imgRegex gets: the counter goes up by
\* the number of images; in a list without rows every image has become the
\* figure block of its number and no other node has become one
FiguresNumbered(seen) ==
    IF seen.threw
    THEN imgNum' = imgNum
    ELSE IF imgNum + ImagesUpTo(seen.children, Len(seen.children)) > MaxOrdinal
    THEN pc' = "aborted"
    ELSE /\ imgNum' = imgNum + ImagesUpTo(seen.children, Len(seen.children))
         /\ (\A j \in 1..Len(seen.children) : ~IsRow(seen.children[j])) =>
               /\ Len(NodeAt(tree', cur).children) = Len(seen.children)
               /\ \A j \in 1..Len(seen.children) :
                     IF seen.children[j].type = "image"
                     THEN IsFigureNumbered(NodeAt(tree', cur).children[j],
                                           imgNum + ImagesUpTo(seen.children, j))
                     ELSE /\ IsFigureBlock(NodeAt(tree', cur).children[j])
                               => NodeAt(tree', cur).children[j] = seen.children[j]
                          /\ seen.children[j].type \notin {"text", "html"}
                               => NodeAt(tree', cur).children[j] = seen.children[j]

\* C4: the k-th image met in a traversal raises the image counter once and
\* becomes one figure block with ordinal k, float-right for odd k and
\* float-left for even k; other nodes do not become figures and leave the
\* counter alone; three images get 1, 2, 3 and right, left, right
FigureNumbering ==
    /\ [][pc = "visit" => FiguresNumbered(SeenBy("img"))]_vars
    /\ [](pc = "done" /\ input = Root(<<PImgs, PImg1>>) =>
            /\ imgNum = 3
            /\ IsFigureNumbered(tree.children[1].children[1], 1)
            /\ IsFigureNumbered(tree.children[1].children[3], 2)
            /\ IsFigureNumbered(tree.children[2].children[1], 3)
            /\ startsWith(tree.children[1].children[1].value, FigA \o FloatRight)
            /\ startsWith(tree.children[1].children[3].value, FigA \o FloatLeft)
            /\ startsWith(tree.children[2].children[1].value, FigA \o FloatRight))

FigureNumberingWitness ==
    /\ pc = "done"
    /\ input = Root(<<PImgs, PImg1>>)
    /\ imgNum = 3
    /\ CountIn(tree, "figure") = 3

\* the indices where a maximal run of rows ends
RunEnds(kids) ==
    {i \in 1..Len(kids) : IsRow(kids[i]) /\ (i = Len(kids) \/ ~IsRow(kids[i + 1]))}

\* where the node at index i of the list handed in sits in the list returned:
\* after one caption for every run that ended before it
PlaceOf(kids, i) == i + Cardinality({e \in RunEnds(kids) : e < i})

\* C5: tblRegex, when it returns, has raised the table counter once and
\* emitted one caption for every maximal run of consecutive rows, right after
\* the last row of the run (before the next node or at the end of the list);
\* a list without rows gets no caption and leaves the counter alone, and the
\* nodes keep their order
OneCaptionPerRun ==
    loc.fn = "tblRegex" /\ loc.at = "returned" =>
        /\ loc.num = loc.start + Cardinality(RunEnds(loc.children))
        /\ Len(loc.out) = Len(loc.children) + Cardinality(RunEnds(loc.children))
        /\ \A i \in 1..Len(loc.children) :
              /\ loc.out[PlaceOf(loc.children, i)].type = loc.children[i].type
              /\ ~IsRow(loc.children[i]) =>
                    loc.out[PlaceOf(loc.children, i)] = loc.children[i]
              /\ IsRow(loc.children[i]) =>
                    Len(loc.out[PlaceOf(loc.children, i)].children)
                      = Len(loc.children[i].children)
        /\ \A e \in RunEnds(loc.children) :
              /\ IsCaption(loc.out[PlaceOf(loc.children, e) + 1])
              /\ startsWith(loc.out[PlaceOf(loc.children, e) + 1].value,
                            CapA \o ReferenceNumeral(loc.start +
                                       Cardinality({d \in RunEnds(loc.children) : d <= e}))
                            \o CapB)

\* two runs of rows with another node between them: a caption inside the
\* list and one at its end
OneCaptionPerRunWitness ==
    /\ loc.fn = "tblRegex"
    /\ loc.at = "returned"
    /\ loc.start = 0
    /\ Len(loc.children) = 3
    /\ RunEnds(loc.children) = {1, 3}
    /\ Len(loc.out) = 5
    /\ IsCaption(loc.out[2]) /\ IsCaption(loc.out[5])

\* the three nodes at the head of the pending list follow the convention
HeadIsPattern(pending) ==
    /\ Len(pending) >= 3
    /\ pending[1].type = "text"
    /\ Len(pending[1].value) >= 2
    /\ pending[1].value[Len(pending[1].value) - 1] = "^"
    /\ pending[1].value[Len(pending[1].value)] = "["
    /\ pending[2].type = "link" /\ pending[2].children # <<>>
    /\ pending[3].type = "text"
    /\ pending[3].value # <<>> /\ pending[3].value[1] = "]"

\* the text node a match emits for the three nodes at the head
Canonical(pending) ==
    Text(SubSeq(pending[1].value, 1, Len(pending[1].value) - 2)
         \o <<"[", "^">> \o pending[2].children[1].value \o <<"]">>)

\* one iteration of the loop: a match takes the three nodes at the head,
\* emits the canonical text and puts what is left of the third node, if
\* anything, back in front of the pending nodes; without a match one node moves
SpliceConsumes ==
    loc.fn = "transformCustomFootnotes" /\ loc.at = "loop" /\ loc'.at = "loop" =>
        IF HeadIsPattern(loc.children)
        THEN /\ loc'.newChildren = Append(loc.newChildren, Canonical(loc.children))
             /\ loc'.children
                  = (IF Len(loc.children[3].value) > 1
                     THEN <<Text(Tail(loc.children[3].value))>>
                     ELSE <<>>)
                    \o SubSeq(loc.children, 4, Len(loc.children))
        ELSE /\ loc'.newChildren = Append(loc.newChildren, loc.children[1])
             /\ loc'.children = Tail(loc.children)

\* a^[ link ]b and, back to back, a^[ link ]^[ link ]b
OnePattern == <<Text(<<"a", "^", "[">>), Link(<<Text(<<"d">>)>>), Text(<<"]", "b">>)>>
TwoPatterns ==
    <<Text(<<"a", "^", "[">>), Link(<<Text(<<"d">>)>>), Text(<<"]", "^", "[">>),
      Link(<<Text(<<"d">>)>>), Text(<<"]", "b">>)>>

\* what the call returns: a list of text, link, text that follows the
\* convention has become one text node, the canonical form followed by the
\* rest of the third node, and holds no link; back-to-back patterns both match
SpliceCollapses ==
    loc.fn = "transformCustomFootnotes" /\ loc.at = "returned" =>
        /\ Len(loc.input) = 3 /\ HeadIsPattern(loc.input) =>
              /\ loc.out = <<Text(Canonical(loc.input).value \o Tail(loc.input[3].value))>>
              /\ \A k \in 1..Len(loc.out) : loc.out[k].type # "link"
        /\ loc.input = OnePattern => loc.out = <<Text(<<"a", "[", "^", "d", "]", "b">>)>>
        /\ loc.input = TwoPatterns =>
              loc.out = <<Text(<<"a", "[", "^", "d", "]", "[", "^", "d", "]", "b">>)>>

\* C6: the splicer: a match at the head of the pending nodes (text ending
\* with ^[, link with a child, text starting with ]) consumes these three
\* nodes, emits one text node (the first without its marker, then [^ link
\* text ]) and puts the rest of the third node back as the first pending node,
\* so that back-to-back patterns match too; text, link, text following the
\* convention comes back as a single text node without the link
SplicerMatch == [](SpliceCollapses) /\ [][SpliceConsumes]_vars

\* the back-to-back patterns have come back as one text node
SplicerMatchWitness ==
    /\ loc.fn = "transformCustomFootnotes"
    /\ loc.at = "returned"
    /\ loc.input = TwoPatterns
    /\ Len(loc.out) = 1

\* C7: for n in 1..99 the formatter returns the reference rendering of n, a
\* nonempty string (1 is one, 10 is ten, 20 is two-ten, 99 is nine-ten-nine),
\* and no other number in 1..99 gets the same string
OrdinalResult ==
    loc.fn = "numberToChinese" /\ loc.at # "call" /\ loc.num \in 1..MaxOrdinal =>
        /\ loc.at = "returned"
        /\ loc.result # <<>>
        /\ loc.result = ReferenceNumeral(loc.num)
        /\ loc.num = 1 => loc.result = <<"U+4E00">>
        /\ loc.num = 10 => loc.result = <<"U+5341">>
        /\ loc.num = 20 => loc.result = <<"U+4E8C", "U+5341">>
        /\ loc.num = 99 => loc.result = <<"U+4E5D", "U+5341", "U+4E5D">>
        /\ \A m \in 1..MaxOrdinal : m # loc.num => numberToChinese(m) # loc.result

OrdinalResultWitness ==
    /\ loc.fn = "numberToChinese"
    /\ loc.at = "returned"
    /\ loc.num = 20
    /\ loc.result = <<"U+4E8C", "U+5341">>

\* C8: the formatter throws for every n outside 1..99; a traversal that
\* reaches its 100th image or table is aborted by that error, which leaves
\* the transformer: no node after the one being visited has been touched, no
\* pilcrow has been appended and no footnote section
OverflowFatal ==
    /\ loc.fn = "numberToChinese" /\ loc.at # "call" /\ loc.num \notin 1..MaxOrdinal =>
          loc.at = "threw"
    /\ imgNum > MaxOrdinal \/ tblNum > MaxOrdinal => pc = "aborted"
    /\ pc = "aborted" =>
          /\ imgNum = MaxOrdinal + 1 \/ tblNum = MaxOrdinal + 1
          /\ Len(tree.children) = Len(input.children)
          /\ \A i \in (cur[1] + 1)..Len(tree.children) : tree.children[i] = input.children[i]
          /\ CountIn(tree, "mark") = CountIn(input, "mark")

\* the hundredth image has aborted the invocation before the last paragraph
OverflowFatalWitness ==
    /\ pc = "aborted"
    /\ input = ImgOverflowDoc
    /\ imgNum = MaxOrdinal + 1
    /\ tree.children[Len(tree.children)] = PFoot2
    /\ collectedFootnotes = <<>>

\* C9: a second run, with fresh state, on the tree a first run returned takes
\* nothing the first run rewrote for a new footnote, figure or table: it
\* raises no counter and adds no figure block, caption or reference link
SecondRunInert ==
    rerun /\ pc = "done" =>
        /\ imgNum = 0 /\ tblNum = 0 /\ footNoteNum = 0
        /\ CountIn(tree, "figure") = CountIn(input, "figure")
        /\ CountIn(tree, "caption") = CountIn(input, "caption")
        /\ CountIn(tree, "ref") = CountIn(input, "ref")

\* the paths of the nodes below and at the node at path, in document order
RECURSIVE PathsFrom(_, _)
PathsFrom(node, path) ==
    LET below == [k \in 1..Len(node.children) |->
                     PathsFrom(node.children[k], Append(path, k))]
        joined[k \in 0..Len(below)] == IF k = 0 THEN <<>> ELSE joined[k - 1] \o below[k]
    IN <<path>> \o joined[Len(below)]

\* the paths of the paragraphs with children, in document order
ContentParagraphs(root) ==
    SelectSeq(PathsFrom(root, <<>>),
              LAMBDA p : NodeAt(root, p).type = "paragraph"
                         /\ NodeAt(root, p).children # <<>>)

\* the last child of the last paragraph with children of the tree before the
\* mark was appended, as it is in the tree now
LastLeaf(before, now) ==
    LET ps == ContentParagraphs(before)
        p == ps[Len(ps)]
    IN NodeAt(now, Append(p, Len(NodeAt(before, p).children)))

\* C10: after the visit and before the footnote section, the last paragraph
\* with content in document order, wherever it sits in the tree, has the
\* pilcrow appended to the value of its last child when that child is a text
\* or html node; one node at most gets the mark, once, and none when that
\* child is of another kind
TrailingMarkAnywhere ==
    [][pc = "mark" =>
         IF ContentParagraphs(tree) = <<>>
         THEN tree' = tree
         ELSE IF LastLeaf(tree, tree).type \in {"text", "html"}
         THEN /\ LastLeaf(tree, tree').value = LastLeaf(tree, tree).value \o <<PILCROW>>
              /\ CountIn(tree', "mark") <= CountIn(tree, "mark") + 1
         ELSE tree' = tree]_vars

\* the stages in the order stated: the splicer, the internal-link rewrites,
\* the footnote collector, figure numbering, figure link labeling, table
\* numbering, table link labeling
StatedStages ==
    <<"splice", "anchorDesc", "anchor", "postDesc", "post", "footnote",
      "img", "imgLink", "tbl", "tblLink">>

\* the typographic and alignment rewrites the visitor runs, in its order
IsLateRewrite(pass) ==
    pass # "decode" /\ \A k \in 1..Len(StatedStages) : StatedStages[k] # pass
LateRewrites == SelectSeq(Passes, IsLateRewrite)

\* the visit left what r, the stages run one on the output of the other, leaves
VisitLeaves(r) ==
    /\ NodeAt(tree', cur).children = r.children
    /\ imgNum' = r.g.img /\ tblNum' = r.g.tbl /\ footNoteNum' = r.g.foot
    /\ collectedFootnotes' = r.g.foots
    /\ (pc' = "aborted") = r.threw

\* C11: for every visited node the passes run in the fixed order splicer,
\* internal-link rewrites, footnote collector, figure numbering, figure link
\* labeling, table numbering, table link labeling, typographic and alignment
\* rewrites, each on the list the one before returned; so a custom footnote
\* the splicer brings into the form [^desc] gets its number in the same
\* visit, in sequence by position with the ordinary markers of the node
FixedPassOrder ==
    /\ [][pc = "visit" =>
            VisitLeaves(RunPasses(<<"decode">> \o StatedStages \o LateRewrites,
                                  [children |-> NodeAt(tree, cur).children,
                                   g |-> Globals, threw |-> FALSE]))]_vars
    /\ [](pc = "done" /\ input = Root(<<PCustom>>) =>
            /\ collectedFootnotes
                 = <<[num |-> 1, content |-> <<"d">>], [num |-> 2, content |-> <<"c">>]>>
            /\ [k \in 1..3 |-> tree.children[1].children[k]]
                 = <<Text(<<"k">>), Html(FootRef(1)), Text(<<"z">>)>>
            /\ startsWith(tree.children[1].children[4].value, FootRef(2)))

\* the custom footnote d and the ordinary marker c of one paragraph
FixedPassOrderWitness ==
    /\ pc = "done"
    /\ input = Root(<<PCustom>>)
    /\ footNoteNum = 2
    /\ Len(tree.children[1].children) = 4

\* C12: an invocation runs from its reset to its footnote section without a
\* step of another invocation in between, and over a sequence of invocations
\* on different trees the counters and the footnote list never mix two
\* documents: the section of a tree holds the footnotes of that tree only,
\* numbered from 1
Isolated ==
    /\ [][(pc \in {"visit", "mark", "notes"}) =>
            (runs' = runs /\ input' = input /\ nvisited' >= nvisited)]_vars
    /\ [](pc = "done" /\ runs > 1 =>
            /\ collectedFootnotes = Transform(input).g.foots
            /\ \A k \in 1..Len(collectedFootnotes) :
                  /\ collectedFootnotes[k].num = k
                  /\ tree.children[Len(input.children) + 1 + k]
                       = ExpectedSection(collectedFootnotes)[k + 1])
    /\ [](pc = "done" /\ input = Root(<<PImgs, TBasic>>) =>
            /\ collectedFootnotes = <<[num |-> 1, content |-> <<"e">>]>>
            /\ imgNum = 2 /\ tblNum = 1
            /\ Len(tree.children) = 4)

\* a second invocation, on another tree than the first returned, is complete
IsolatedWitness ==
    /\ runs = 2
    /\ ~rerun
    /\ pc = "done"
    /\ input = Root(<<PImgs, TBasic>>)
    /\ footNoteNum = 1


\* the first row of the run of rows that ends at kids[e]
RunStart(kids, e) ==
    CHOOSE b \in 1..e : /\ \A i \in b..e : IsRow(kids[i])
                        /\ (b = 1 \/ ~IsRow(kids[b - 1]))

\* the text of the first inline child of the first cell of a row, the empty
\* string where the row has no such child
FirstCellText(row) ==
    IF Len(row.children) > 0 /\ Len(row.children[1].children) > 0
    THEN row.children[1].children[1].value
    ELSE <<>>

\* the row with the text of the first inline child of its first cell blanked
FirstCellBlanked(row) ==
    IF Len(row.children) > 0 /\ Len(row.children[1].children) > 0
    THEN [row EXCEPT !.children[1].children[1].value = <<>>]
    ELSE row

\* C13: in a returned call of tblRegex, every run of rows of the list, a
\* second or later one included, has a caption whose title is the text of the
\* first inline child of the first cell of the first row of that run, and in
\* the output that text is blanked and the later rows of the run are the
\* rows of the input.
TitlePerTable ==
    (loc.fn = "tblRegex" /\ loc.at = "returned") =>
        \A e \in RunEnds(loc.children) :
            LET b == RunStart(loc.children, e)
                caption == loc.out[PlaceOf(loc.children, e) + 1]
            IN  /\ caption.type = "html"
                /\ caption.value = Caption(loc.start + Cardinality({x \in RunEnds(loc.children) : x <= e}),
                                           FirstCellText(loc.children[b]))
                /\ loc.out[PlaceOf(loc.children, b)] = FirstCellBlanked(loc.children[b])
                /\ \A i \in (b + 1)..e :
                       loc.out[PlaceOf(loc.children, i)] = loc.children[i]

IsTextNode(n) == n.type = "text"
IsOtherNode(n) == n.type # "text"

\* the texts of a list joined between its non-text nodes: one string before
\* the first non-text node, one after each
RECURSIVE TextBetween(_, _, _)
TextBetween(nodes, i, joined) ==
    IF i > Len(nodes)
    THEN <<joined>>
    ELSE IF IsTextNode(nodes[i])
         THEN TextBetween(nodes, i + 1, joined \o nodes[i].value)
         ELSE <<joined>> \o TextBetween(nodes, i + 1, <<>>)

\* C14: in the list transformCustomFootnotes returns no two neighbours are
\* both texts; its non-text nodes are those of the list before the merge, in
\* the same order; and between them the texts, joined, read as before the
\* merge, so that no text crossed a non-text node.
SplicerCoalesces ==
    (loc.fn = "transformCustomFootnotes" /\ loc.at = "returned") =>
        /\ \A k \in 1..(Len(loc.out) - 1) :
               ~(IsTextNode(loc.out[k]) /\ IsTextNode(loc.out[k + 1]))
        /\ SelectSeq(loc.out, IsOtherNode) = SelectSeq(loc.newChildren, IsOtherNode)
        /\ TextBetween(loc.out, 1, <<>>) = TextBetween(loc.newChildren, 1, <<>>)

\* ]b, ]b, link, ]b came through the loop as four nodes: the first two are
\* returned as the one text ]b]b, the link and the text after it as they are
SplicerCoalescesWitness ==
    /\ loc.fn = "transformCustomFootnotes" /\ loc.at = "returned"
    /\ Len(loc.newChildren) = 4
    /\ loc.out = <<Text(<<"]", "b", "]", "b">>), Link(<<>>), Text(<<"]", "b">>)>>

(***************************************************************************)
(* footnoteRegex called on its own                                         *)
(***************************************************************************)
\* the nodes of the sibling lists: x[^a]y as a text, a figure reference alone,
\* a table reference with a footnote after it, two footnotes without text
\* around them, a text without a marker, and a link
FootSibs ==
    {Text(<<"x", "[", "^", "a", "]", "y">>),
     Text(<<"[", "^", TU, "a", "]">>),
     Html(<<"[", "^", BIAO, "b", "]", "[", "^", "c", "]">>),
     Html(<<"[", "^", "a", "]", "[", "^", "b", "]">>),
     Text(<<"n">>),
     Link(<<>>)}

\* collectedFootnotes at the call: empty, or the two footnotes of an earlier
\* node of the same run; footnoteRegex.footNoteNum is its length
FootStarts == {<<>>, <<[num |-> 1, content |-> <<"p">>], [num |-> 2, content |-> <<"q">>]>>}

InitFoot ==
    /\ Loaded
    /\ loc \in {[fn |-> "footnoteRegex", at |-> "call", children |-> q, start |-> f,
                 num |-> Len(f), foots |-> f, out |-> <<>>] :
                   q \in SeqsUpTo(FootSibs, MaxSibs), f \in FootStarts}

\* loc after the call came back with r
FootReturned(r) ==
    loc' = [loc EXCEPT !.at = "returned", !.num = r.num, !.foots = r.foots, !.out = r.out]

FootCall ==
    /\ loc.fn = "footnoteRegex"
    /\ loc.at = "call"
    /\ FootReturned(footnoteRegex(loc.children, loc.num, loc.foots))
    /\ UNCHANGED <<transformerVars, globals>>

SpecFoot == InitFoot /\ [][FootCall]_vars

\* a footnote marker begins at index i of s: [^, then neither of the two
\* reference prefixes, and a closing bracket somewhere after
IsMarkerAt(s, i) ==
    /\ i + 2 <= Len(s)
    /\ s[i] = "[" /\ s[i + 1] = "^" /\ s[i + 2] \notin {TU, BIAO}
    /\ \E j \in (i + 2)..Len(s) : s[j] = "]"

\* what is to stand for s from index i on, the text from index from on not yet
\* emitted and n footnotes numbered so far: a link for every marker, and the
\* non-empty stretches between them as texts
RECURSIVE PiecesFrom(_, _, _, _)
PiecesFrom(s, i, from, n) ==
    IF i > Len(s)
    THEN IF from <= Len(s) THEN <<Text(SubSeq(s, from, Len(s)))>> ELSE <<>>
    ELSE IF IsMarkerAt(s, i)
    THEN LET close == CHOOSE j \in (i + 2)..Len(s) :
                          s[j] = "]" /\ \A k \in (i + 2)..(j - 1) : s[k] # "]"
         IN (IF from < i THEN <<Text(SubSeq(s, from, i - 1))>> ELSE <<>>)
            \o <<Html(FootRef(n + 1))>>
            \o PiecesFrom(s, close + 1, close + 1, n + 1)
    ELSE PiecesFrom(s, i + 1, from, n)

\* what is to stand for the siblings from index j on
RECURSIVE PiecesOf(_, _, _)
PiecesOf(children, j, n) ==
    IF j > Len(children)
    THEN <<>>
    ELSE LET child == children[j]
             found == IF child.type \in {"text", "html"}
                      THEN Len(MarkersFrom(child.value, 1)) ELSE 0
         IN (IF found = 0 THEN <<child>> ELSE PiecesFrom(child.value, 1, 1, n))
            \o PiecesOf(children, j + 1, n + found)

\* the occurrences of [^ followed by one of the two reference prefixes in the
\* values of these siblings
RECURSIVE ReservedIn(_, _)
ReservedIn(children, j) ==
    IF j > Len(children)
    THEN 0
    ELSE Cardinality({i \in 1..(Len(children[j].value) - 2) :
                        /\ children[j].value[i] = "[" /\ children[j].value[i + 1] = "^"
                        /\ children[j].value[i + 2] \in {TU, BIAO}})
         + ReservedIn(children, j + 1)

\* C15: footnoteRegex counts and lists the markers whose content does not
\* begin with the figure or the table prefix, and only those; the reserved
\* markers stay in the values as they are; every other marker of a text or
\* html node is replaced by one reference link in its place, the non-empty
\* text around the markers by text nodes in their order; a node without a
\* footnote marker is returned as the node it is.
CollectorSplits ==
    (loc.fn = "footnoteRegex" /\ loc.at = "returned") =>
        /\ loc.num = Len(loc.start) + Len(MarkersOf(loc.children, 1))
        /\ loc.foots = loc.start \o Numbered(MarkersOf(loc.children, 1), Len(loc.start))
        /\ loc.out = PiecesOf(loc.children, 1, Len(loc.start))
        /\ ReservedIn(loc.out, 1) = ReservedIn(loc.children, 1)
        /\ Len(RefLinks(loc.out)) = Len(MarkersOf(loc.children, 1))

\* [^表b][^c] as html, then the text n: the table reference is a text now, c
\* is the third footnote, and n is the node it was
CollectorSplitsWitness ==
    /\ loc.fn = "footnoteRegex" /\ loc.at = "returned"
    /\ loc.children = <<Html(<<"[", "^", BIAO, "b", "]", "[", "^", "c", "]">>), Text(<<"n">>)>>
    /\ loc.num = 3
    /\ loc.out = <<Text(<<"[", "^", BIAO, "b", "]">>), Html(FootRef(3)), Text(<<"n">>)>>

(***************************************************************************)
(* regex called on its own                                                 *)
(***************************************************************************)
\* the nodes of the sibling lists: a text and a html the two patterns match
\* (once and twice), a text and a html they do not match, a link, and a
\* blockquote around a paragraph
RegexSibs ==
    {Text(<<"U+4E2D", "a">>), Html(<<"a", "U+4E2D", "b", "U+6587">>),
     Text(<<"n">>), Html(<<"h">>), Link(<<Text(<<"d">>)>>), QNest}

\* the patterns of the calls
RegexPatterns == {"cjkLatin", "latinCjk"}

InitRegex ==
    /\ Loaded
    /\ loc \in {[fn |-> "regex", at |-> "call", children |-> q, rx |-> rx, out |-> <<>>] :
                   q \in SeqsUpTo(RegexSibs, MaxSibs), rx \in RegexPatterns}

\* the call comes back with a list, or throws at child.value.replace
RegexCall ==
    /\ loc.fn = "regex"
    /\ loc.at = "call"
    /\ loc' = IF regexThrows(loc.children)
              THEN [loc EXCEPT !.at = "threw"]
              ELSE [loc EXCEPT !.at = "returned", !.out = regex(loc.children, loc.rx)]
    /\ UNCHANGED <<transformerVars, globals>>

SpecRegex == InitRegex /\ [][RegexCall]_vars

\* the node regex is to return for child: child itself unless it is a
\* candidate the pattern matches, a node of the same kind and value where the
\* pattern changes nothing, a html node with the substituted value otherwise
RewrittenAs(child, node, rx) ==
    IF child.type \notin {"text", "html", "blockquote"}
    THEN node = child
    ELSE IF child.type = "blockquote" \/ Replace(rx, child.value) = child.value
    THEN /\ node.type = child.type
         /\ node.value = child.value
         /\ node.children = child.children
    ELSE node = Html(Replace(rx, child.value))

\* C16: a call of regex returns a list with one node for every node of its
\* input, in its order: the node itself for a kind other than text, html and
\* blockquote; a node of the same kind and value for a text, a html or a
\* blockquote the pattern changes nothing in; one html node with every match
\* substituted for a text or html the pattern matches.
RewriterKinds ==
    (loc.fn = "regex" /\ loc.at # "call") =>
        /\ loc.at = "returned"
        /\ Len(loc.out) = Len(loc.children)
        /\ \A j \in 1..Len(loc.children) :
               RewrittenAs(loc.children[j], loc.out[j], loc.rx)

\* an iteration that does not find the convention at the head of the pending
\* nodes moves the first pending node, as it is, to the result
SplicePassesThrough ==
    (/\ loc.fn = "transformCustomFootnotes" /\ loc.at = "loop"
     /\ Len(loc.children) > 0 /\ ~HeadIsPattern(loc.children)) =>
        /\ loc'.at = "loop"
        /\ loc'.newChildren = Append(loc.newChildren, loc.children[1])
        /\ loc'.children = Tail(loc.children)
        /\ loc'.matches = loc.matches

\* the collector, run from a fresh counter on what the splicer returned,
\* finds one footnote for every window that matched and none besides: none
\* at all where no window matched
UnmatchedYieldsNone ==
    (loc.fn = "transformCustomFootnotes" /\ loc.at = "returned") =>
        /\ footnoteRegex(loc.out, 0, <<>>).num = loc.matches
        /\ Len(footnoteRegex(loc.out, 0, <<>>).foots) = loc.matches
        /\ loc.matches = 0 =>
               /\ loc.out = mergeAdjacent(loc.input)
               /\ footnoteRegex(loc.out, 0, <<>>).out = loc.out

\* C17: a window of the splicer that does not match in full (the first node
\* not a text ending with ^[, the second not a link with a child, or the
\* third not a text starting with ]) costs the pending list its first node
\* only, which goes to the result as it is; the call goes on to its return;
\* and what is left of an unfinished marker gives the collector no footnote
\* to number.
MalformedFallsBack ==
    /\ [](loc.fn = "transformCustomFootnotes" => loc.at \in {"loop", "returned"})
    /\ [](UnmatchedYieldsNone)
    /\ [][SplicePassesThrough]_vars

\* a^[, a link around d and a^[ again: the marker is not closed, the three
\* nodes are returned as they came, after three iterations without a match
MalformedFallsBackWitness ==
    /\ loc.fn = "transformCustomFootnotes" /\ loc.at = "returned"
    /\ loc.input = <<Text(<<"a", "^", "[">>), Link(<<Text(<<"d">>)>>), Text(<<"a", "^", "[">>)>>
    /\ loc.out = loc.input
    /\ loc.iterations = 3 /\ loc.matches = 0

(***************************************************************************)
(* imgRegex and tblRegex called on their own                               *)
(***************************************************************************)
\* the nodes of the sibling lists of imgRegex: images with an alt text, with
\* the empty alt text and without an alt property, and a text
ImgSibs ==
    {Image(<<"u">>, <<"p">>), Image(<<"u">>, <<>>), Image(<<"u">>, NoAlt), Text(<<"t">>)}

\* the values of imgRegex.imgNum the call starts from
ImgStarts == {0, 1}

InitImg ==
    /\ Loaded
    /\ loc \in {[fn |-> "imgRegex", at |-> "call", children |-> q, start |-> n,
                 num |-> n, out |-> <<>>] :
                   q \in SeqsUpTo(ImgSibs, MaxSibs), n \in ImgStarts}

\* loc after the call came back with r
ImgReturned(r) ==
    loc' = [loc EXCEPT !.at = IF r.threw THEN "threw" ELSE "returned",
                       !.num = r.num,
                       !.out = IF r.threw THEN <<>> ELSE r.out]

ImgCall ==
    /\ loc.fn = "imgRegex"
    /\ loc.at = "call"
    /\ ImgReturned(imgRegex(loc.children, loc.num))
    /\ UNCHANGED <<transformerVars, globals>>

InitMissing == InitImg \/ InitTbl
NextMissing == ImgCall \/ TblCall
SpecMissing == InitMissing /\ [][NextMissing]_vars

\* the figure block of the image child, numbered n, with alt where the alt
\* text goes
FigureWith(child, n, alt) ==
    Html(FigA \o (IF n % 2 = 1 THEN FloatRight ELSE FloatLeft) \o FigB \o child.url
         \o FigC \o alt \o FigD \o ReferenceNumeral(n) \o FigE \o ReferenceNumeral(n)
         \o FigF \o ReferenceNumeral(n) \o FigG \o alt \o FigH)

\* the images among the first j of these siblings
ImagesAmong(children, j) == Cardinality({i \in 1..j : children[i].type = "image"})

\* imgRegex returns a figure block for every image, with the empty string in
\* both places of the alt text where the image has none, and has counted
\* every image
NoAltIsEmpty ==
    (loc.fn = "imgRegex" /\ loc.at # "call") =>
        /\ loc.at = "returned"
        /\ loc.num = loc.start + ImagesAmong(loc.children, Len(loc.children))
        /\ Len(loc.out) = Len(loc.children)
        /\ \A j \in 1..Len(loc.children) :
               loc.children[j].type = "image" =>
                   loc.out[j] = FigureWith(loc.children[j],
                                           loc.start + ImagesAmong(loc.children, j),
                                           IF loc.children[j].alt = NoAlt
                                           THEN <<>> ELSE loc.children[j].alt)

\* tblRegex returns a caption with the empty title for every run of rows
\* whose first row has no first cell, or a first cell without text, and has
\* counted every run
NoTitleIsEmpty ==
    (loc.fn = "tblRegex" /\ loc.at # "call" /\ loc.start = 0) =>
        /\ loc.at = "returned"
        /\ loc.num = Cardinality(RunEnds(loc.children))
        /\ \A e \in RunEnds(loc.children) :
               FirstCellText(loc.children[RunStart(loc.children, e)]) = <<>> =>
                   loc.out[PlaceOf(loc.children, e) + 1] =
                       Html(Caption(Cardinality({x \in RunEnds(loc.children) : x <= e}), <<>>))

\* C18: an image without alt text gets a figure block with the empty string
\* as the alt attribute and as the caption text; a table whose first row has
\* no first cell, or an empty one, gets a caption with the empty title;
\* neither call fails, and the counters are raised as for any image or table.
MissingIsEmpty == NoAltIsEmpty /\ NoTitleIsEmpty

(***************************************************************************)
(* The three collapse calls on one text node                               *)
(***************************************************************************)
MaxPieces == 5     \* pieces a node value is put together from

\* the pieces of the values: the three characters the pattern begins with, a
\* space, a CJK character, the first character of the CJK range, and a letter
CollapsePieces == {<<YI, "-", YU>>, <<" ">>, <<"U+4E2D">>, <<YI>>, <<"a">>}

RECURSIVE Joined(_)
Joined(pieces) == IF pieces = <<>> THEN <<>> ELSE Head(pieces) \o Joined(Tail(pieces))

\* a paragraph's one text node before the first of the three calls; values
\* is what the node's value was after each call so far
InitCollapse ==
    /\ Loaded
    /\ loc \in {[fn |-> "collapse", input |-> Joined(q), children |-> <<Text(Joined(q))>>,
                 values |-> <<>>] : q \in SeqsUpTo(CollapsePieces, MaxPieces)}

\* one of the three calls node.children = regex(node, pattern, '$1$2')
CollapseCall ==
    /\ loc.fn = "collapse"
    /\ Len(loc.values) < 3
    /\ loc' = [loc EXCEPT !.children = regex(loc.children, "collapse"),
                          !.values = Append(@, regex(loc.children, "collapse")[1].value)]
    /\ UNCHANGED <<transformerVars, globals>>

SpecCollapse == InitCollapse /\ [][CollapseCall]_vars

\* C19 as stated: the second and the third call leave the value the first
\* call left.
CollapseOnceIsEnough ==
    loc.fn = "collapse" =>
        \A k \in 1..Len(loc.values) : loc.values[k] = loc.values[1]

IsNotSpace(c) == c \notin SpaceChars

\* the pattern has a match in s: the three characters, white space, and a
\* CJK character after it
CollapseMatchIn(s) ==
    \E i \in 1..Len(s), e \in 1..Len(s) :
        /\ i + 3 <= e /\ e < Len(s)
        /\ s[i] = YI /\ s[i + 1] = "-" /\ s[i + 2] = YU
        /\ \A k \in (i + 3)..e : s[k] \in SpaceChars
        /\ s[e + 1] \in CJKChars

\* C19, amended: a call removes white space and nothing else; the first call
\* can leave a match of the pattern behind, where the character that ends one
\* match begins the next, and the second call then changes the value again;
\* after the second call no match is left, and the third call changes nothing.
CollapseTwiceIsEnough ==
    loc.fn = "collapse" =>
        /\ \A k \in 1..Len(loc.values) :
               /\ SelectSeq(loc.values[k], IsNotSpace) = SelectSeq(loc.input, IsNotSpace)
               /\ Len(loc.values[k]) <= Len(loc.input)
               /\ loc.values[k] # (IF k = 1 THEN loc.input ELSE loc.values[k - 1])
                      <=> CollapseMatchIn(IF k = 1 THEN loc.input ELSE loc.values[k - 1])
        /\ Len(loc.values) >= 2 => ~CollapseMatchIn(loc.values[2])
        /\ Len(loc.values) = 3 => loc.values[3] = loc.values[2]

\* the pattern twice, the second beginning with the character that ends the
\* first, then a CJK character: the first call removed the first space only,
\* the second call the second
CollapseTwiceIsEnoughWitness ==
    /\ loc.fn = "collapse"
    /\ loc.input = <<YI, "-", YU, " ", YI, "-", YU, " ", "U+4E2D">>
    /\ Len(loc.values) = 3
    /\ loc.values[1] = <<YI, "-", YU, YI, "-", YU, " ", "U+4E2D">>
    /\ loc.values[2] = <<YI, "-", YU, YI, "-", YU, "U+4E2D">>
    /\ loc.children[1].type = "html"

IsInputNode(n) == n \in SpliceSibs

\* the pending nodes that are nodes of the input: all of them, or all but a
\* first one that a match put back
PendingInput(pending) ==
    IF pending # <<>> /\ ~IsInputNode(pending[1]) THEN Tail(pending) ELSE pending

\* an iteration shortens the pending list: by one node where the head does
\* not match, by two or three where it does; and it emits one node
SpliceShortens ==
    (loc.fn = "transformCustomFootnotes" /\ loc.at = "loop" /\ Len(loc.children) > 0) =>
        /\ Len(loc'.children) < Len(loc.children)
        /\ Len(loc'.children) >= Len(loc.children) - (IF HeadIsPattern(loc.children) THEN 3 ELSE 1)
        /\ Len(loc'.children) <= Len(loc.children) - (IF HeadIsPattern(loc.children) THEN 2 ELSE 1)
        /\ Len(loc'.newChildren) = Len(loc.newChildren) + 1
        /\ loc'.iterations = loc.iterations + 1

\* the iterations so far are no more than the nodes that left the pending
\* list; what is pending of the input is the end of the input, in its order;
\* and every node of the input before it was emitted as it is or was one of
\* the two or three input nodes of a match
SpliceAccounts ==
    loc.fn = "transformCustomFootnotes" =>
        LET rest == PendingInput(loc.children)
            gone == Len(loc.input) - Len(rest)
            emitted == Len(SelectSeq(loc.newChildren, IsInputNode))
        IN  /\ loc.iterations = Len(loc.newChildren)
            /\ loc.iterations + Len(loc.children) <= Len(loc.input)
            /\ rest = SubSeq(loc.input, gone + 1, Len(loc.input))
            /\ emitted <= loc.iterations - loc.matches
            /\ 2 * loc.matches <= gone - emitted
            /\ gone - emitted <= 3 * loc.matches
            /\ loc.at = "returned" => gone = Len(loc.input)

\* C20: the while loop of the splicer comes to its end on every list: an
\* iteration shortens the pending list (by one node, or by three with at most
\* one put back), so there are no more iterations than input nodes, and a
\* node of the input leaves the pending list once, emitted or matched.
SplicerTerminates ==
    /\ [](SpliceAccounts)
    /\ [][SpliceShortens]_vars
    /\ <>(loc.fn = "transformCustomFootnotes" => loc.at = "returned")

\* five nodes, two matches back to back and a link left over: returned after
\* three iterations
SplicerTerminatesWitness ==
    /\ loc.fn = "transformCustomFootnotes" /\ loc.at = "returned"
    /\ loc.input = <<Text(<<"a", "^", "[">>), Link(<<Text(<<"d">>)>>), Text(<<"]", "^", "[">>),
                     Link(<<Text(<<"d">>)>>), Text(<<"]", "b">>)>>
    /\ loc.iterations = 3 /\ loc.matches = 2

(***************************************************************************)
(* The transformer on tables with footnote markers in their title cells    *)
(***************************************************************************)
\* a table whose title cell reads T[^g]: markers in the second cell of the
\* first row and in the first cell of the second row as well
TTitle ==
    Table(<<Row(<<Cell(<<Text(<<"T", "[", "^", "g", "]">>)>>),
                  Cell(<<Text(<<"[", "^", "e", "]">>)>>)>>),
            Row(<<Cell(<<Text(<<"[", "^", "h", "]">>)>>)>>)>>)

\* a table whose title cell reads **T[^n]**[^k]*[^m]*: a strong node with
\* a marker in its text, then a text with a marker, then an emphasis node
\* with a marker in its text
TSplit ==
    Table(<<Row(<<Cell(<<Parent("strong", <<Text(<<"T", "[", "^", "n", "]">>)>>),
                         Text(<<"[", "^", "k", "]">>),
                         Parent("emphasis", <<Text(<<"[", "^", "m", "]">>)>>)>>)>>)>>)

TitleBlocks == {TTitle, TSplit, PFoot2}

TitleDocs == {Root(q) : q \in SeqsUpTo(TitleBlocks, MaxBlocks)}

\* the trees an invocation may be handed: a document, or the tree the last
\* invocation left
TitleInputs == IF pc = "idle" THEN TitleDocs ELSE {tree} \cup TitleDocs

NextTitle ==
    \/ \E doc \in TitleInputs : Invoke(doc)
    \/ Visit
    \/ TrailingMark
    \/ FootnoteSection

SpecTitle == Init /\ [][NextTitle]_vars

\* the table has a title cell: a first row with a first cell with a child
HasTitleCell(block) ==
    /\ block.type = "table"
    /\ Len(block.children) > 0 /\ IsRow(block.children[1])
    /\ Len(block.children[1].children) > 0
    /\ Len(block.children[1].children[1].children) > 0

\* the inline children of the title cell of a table that has one
TitleInline(block) == block.children[1].children[1].children

\* [^ content ]
MarkerText(content) == <<"[", "^">> \o content \o <<"]">>

\* the table of the tree at the place of block b of the input has a caption
\* with the marker in it, as text
InCaption(b, content) ==
    \E k \in 1..Len(tree.children[b].children) :
        /\ IsCaption(tree.children[b].children[k])
        /\ Contains(tree.children[b].children[k].value, MarkerText(content))

IsListed(content) ==
    \E k \in 1..Len(collectedFootnotes) : collectedFootnotes[k].content = content

\* the contents of the markers in the text and html nodes below the nodes of
\* a sibling list, at any depth (those of the list's own nodes left out)
RECURSIVE NestedMarkers(_, _)
NestedMarkers(children, j) ==
    IF j > Len(children)
    THEN <<>>
    ELSE MarkersOf(children[j].children, 1)
         \o NestedMarkers(children[j].children, 1)
         \o NestedMarkers(children, j + 1)

\* C21 as stated: once the transformer is done, no footnote marker inside the
\* title cell of a table of its input, in whichever inline child of the cell
\* and at whichever depth, is in the footnote list, and each is text of the
\* table's caption.
TitleCellUnnumbered ==
    pc = "done" =>
        \A b \in 1..Len(input.children) :
            HasTitleCell(input.children[b]) =>
                LET found == MarkersOf(TitleInline(input.children[b]), 1)
                             \o NestedMarkers(TitleInline(input.children[b]), 1)
                IN \A k \in 1..Len(found) :
                       ~IsListed(found[k]) /\ InCaption(b, found[k])

\* C21, amended: once the transformer is done, for the title cell of each
\* table of its input, (1) the value of the cell's first inline child is
\* blanked, and a marker in that value is not in the footnote list and is text
\* of the table's caption; (2) a marker in the value of a later text or html
\* child of the cell is in the footnote list and not in the caption; (3) a
\* marker in text nested inside an inline child of the cell (the first child
\* included) is neither in the footnote list nor in the caption.  (The
\* documents of SpecTitle use a marker content at one kind of place only.)
TitleTextUnnumbered ==
    pc = "done" =>
        \A b \in 1..Len(input.children) :
            HasTitleCell(input.children[b]) =>
                LET first == MarkersOf(<<TitleInline(input.children[b])[1]>>, 1)
                    later == MarkersOf(TitleInline(input.children[b]), 2)
                    nested == NestedMarkers(TitleInline(input.children[b]), 1)
                IN  /\ TitleInline(tree.children[b])[1].value = <<>>
                    /\ \A k \in 1..Len(first) :
                           ~IsListed(first[k]) /\ InCaption(b, first[k])
                    /\ \A k \in 1..Len(later) :
                           IsListed(later[k]) /\ ~InCaption(b, later[k])
                    /\ \A k \in 1..Len(nested) :
                           ~IsListed(nested[k]) /\ ~InCaption(b, nested[k])

\* the two tables after a first invocation: g of T[^g] is in the first
\* caption and not in the list; e and h are 1 and 2; k of **T[^n]**[^k]*[^m]*
\* is 3; n and m are in neither the list nor the second caption
TitleTextUnnumberedWitness ==
    /\ pc = "done" /\ runs = 1
    /\ input = Root(<<TTitle, TSplit>>)
    /\ footNoteNum = 3
    /\ collectedFootnotes[3].content = <<"k">>
    /\ InCaption(1, <<"g">>) /\ ~IsListed(<<"g">>)
    /\ ~InCaption(2, <<"k">>)
    /\ ~IsListed(<<"n">>) /\ ~InCaption(2, <<"n">>)
    /\ ~IsListed(<<"m">>) /\ ~InCaption(2, <<"m">>)
    /\ \E k \in 1..Len(tree.children[2].children) : IsCaption(tree.children[2].children[k])
====
